---- MODULE Spec2Model ----
(***************************************************************************)
(* Catalog / cache subsystem of the tracker player (src/player.py) and the *)
(* sheet processor it calls (src/main.py).                                 *)
(*                                                                         *)
(*   Spec          request threads and the background refresh thread      *)
(*                 running load_tracks, get_track_index and refresh_sheet  *)
(*   LiveSpec      Spec with the fairness of the background loop           *)
(*   LockSpec      Spec with the acquisition of _cache_lock as a step      *)
(*   SeqStoreSpec  one thread serving /api/play (get_audio_path,           *)
(*                 download_track), the sheet refreshed between requests   *)
(*   StoreSpec     the request threads serving /api/play side by side      *)
(*   ResolveSpec   SeqStoreSpec with /api/artwork calling get_audio_path   *)
(*   PlayRaceSpec  one thread serving /api/play step by step beside the    *)
(*                 background refresh                                      *)
(*   AuthSpec      login, registration, logout and login_required          *)
(*   NameSpec      download_track naming the file of a response            *)
(*   SplitSpec     split_sections on the rows of any sheet                 *)
(*   FilterSpec    load_tracks, get_track_index and /api/tracks on any     *)
(*                 sheet.json                                              *)
(***************************************************************************)
EXTENDS Integers, Sequences, FiniteSets, TLC

(***************************************************************************)
(* Values                                                                  *)
(***************************************************************************)
\* Python's None for the optional globals and results.
None == [kind |-> "None"]

\* The quality sentinel of load_tracks (player.py:196).
NotAvailable == "Not Available"

Hosts == {"pillows", "yetracker", "pixeldrain"}

\* A link is the sequence of its host occurrences, left to right.  An
\* occurrence names the host whose domain text occurs there and the file id
\* the host's pattern captures at that place ("" when the domain occurs
\* without a well-formed "/f/<id>" or "/u/<id>" after it).
Occ(h, f) == [dom |-> h, fid |-> f]

\* str.strip() on the text values of a sheet: surrounding blanks removed.
PaddedForms ==
    [s \in {" Not Available ", " HQ", "Song "} |->
        CASE s = " Not Available " -> "Not Available"
          [] s = " HQ" -> "HQ"
          [] OTHER -> "Song"]

Strip(s) == IF s \in DOMAIN PaddedForms THEN PaddedForms[s] ELSE s

\* "<domain>" in link.lower()  (player.py:200, 217, 234)
DomainIn(link, h) == \E i \in 1..Len(link) : link[i].dom = h

\* re.search(<pattern of h>, link): the leftmost place where the pattern of
\* host h matches; its captured group, or None.
ExtractId(link, h) ==
    LET hits == {i \in 1..Len(link) : link[i].dom = h /\ link[i].fid # ""}
    IN  IF hits = {} THEN ""
        ELSE link[CHOOSE i \in hits : \A j \in hits : i <= j].fid

extract_pillows_hash(link) == ExtractId(link, "pillows")

\* The pattern applied to link.lower(): the file id loses its capitals.
extract_yetracker_id_lowered(link) ==
    IF ExtractId(link, "yetracker") = "Yt1" THEN "yt1" ELSE ExtractId(link, "yetracker")

extract_yetracker_id(link) == ExtractId(link, "yetracker")

extract_pixeldrain_id(link) == ExtractId(link, "pixeldrain")

\* The characters of the patterns' classes: ([a-f0-9]+) with re.IGNORECASE
\* for pillows (player.py:109), ([a-zA-Z0-9]+) for yetracker and pixeldrain
\* (player.py:117, 125).
HexChars ==
    {"a", "b", "c", "d", "e", "f", "A", "B", "C", "D", "E", "F",
     "0", "1", "2", "3", "4", "5", "6", "7", "8", "9"}

AlnumChars ==
    HexChars \cup
    {"g", "h", "i", "j", "k", "l", "m", "n", "o", "p", "q", "r", "s", "t",
     "u", "v", "w", "x", "y", "z", "G", "H", "I", "J", "K", "L", "M", "N",
     "O", "P", "Q", "R", "S", "T", "U", "V", "W", "X", "Y", "Z"}

IdChars(h) == IF h = "pillows" THEN HexChars ELSE AlnumChars

\* The group of a pattern on the text that follows the host's "/f/" or "/u/":
\* the longest run of characters of the class the text starts with; without
\* one the pattern does not match there.
RECURSIVE CaptureRun(_, _)
CaptureRun(text, chars) ==
    IF text # << >> /\ Head(text) \in chars
    THEN << Head(text) >> \o CaptureRun(Tail(text), chars)
    ELSE << >>

\* The occurrence of host h in a link with `text` after its "/f/" or "/u/".
HostOccurrence(h, text) ==
    Occ(h, IF CaptureRun(text, IdChars(h)) = << >> THEN ""
           ELSE CaptureRun(text, IdChars(h)))

\* A digest that also takes the link of the row.
generate_track_id_of_link(track) ==
    << track._row, track.Era, track.Name, track.Link >>

\* md5(f"{row}:{era}:{name}").hexdigest()[:16]: the digest prefix is kept
\* abstract, as the key it is computed from (distinct keys, distinct ids).
generate_track_id(track) == <<track._row, track.Era, track.Name>>

\* The dictionary load_tracks appends for a row.
Record(track, link, quality, fid, h) ==
    [id |-> generate_track_id(track),
     name |-> Strip(track.Name),
     era |-> Strip(track.Era),
     notes |-> Strip(track.Notes),
     quality |-> quality,
     available_length |-> Strip(track.AvailableLength),
     track_length |-> Strip(track.TrackLength),
     hash |-> fid,
     host |-> h,
     original_link |-> link]

\* A loop without the test of the quality sentinel.
ClassifyRowNoSentinel(track) ==
    LET link == track.Link
        quality == Strip(track.Quality)
    IN  IF DomainIn(link, "pillows")
        THEN IF extract_pillows_hash(link) # ""
             THEN << Record(track, link, quality, extract_pillows_hash(link), "pillows") >>
             ELSE << >>
        ELSE IF DomainIn(link, "yetracker")
        THEN IF extract_yetracker_id(link) # ""
             THEN << Record(track, link, quality, extract_yetracker_id(link), "yetracker") >>
             ELSE << >>
        ELSE IF DomainIn(link, "pixeldrain")
        THEN IF extract_pixeldrain_id(link) # ""
             THEN << Record(track, link, quality, extract_pixeldrain_id(link), "pixeldrain") >>
             ELSE << >>
        ELSE << >>

\* A loop that goes on to the next host when a host's domain occurs without
\* a file id.
ClassifyRowFallThrough(track) ==
    LET link == track.Link
        quality == Strip(track.Quality)
    IN  IF quality = NotAvailable THEN << >>
        ELSE IF extract_pillows_hash(link) # ""
        THEN << Record(track, link, quality, extract_pillows_hash(link), "pillows") >>
        ELSE IF extract_yetracker_id(link) # ""
        THEN << Record(track, link, quality, extract_yetracker_id(link), "yetracker") >>
        ELSE IF extract_pixeldrain_id(link) # ""
        THEN << Record(track, link, quality, extract_pixeldrain_id(link), "pixeldrain") >>
        ELSE << >>

\* A loop that tests the domain of the third host before that of the first.
ClassifyRowPixeldrainFirst(track) ==
    LET link == track.Link
        quality == Strip(track.Quality)
    IN  IF quality = NotAvailable THEN << >>
        ELSE IF DomainIn(link, "pixeldrain")
             THEN IF extract_pixeldrain_id(link) # ""
                  THEN << Record(track, link, quality, extract_pixeldrain_id(link), "pixeldrain") >>
                  ELSE << >>
        ELSE IF DomainIn(link, "pillows")
             THEN IF extract_pillows_hash(link) # ""
                  THEN << Record(track, link, quality, extract_pillows_hash(link), "pillows") >>
                  ELSE << >>
        ELSE IF DomainIn(link, "yetracker")
             THEN IF extract_yetracker_id(link) # ""
                  THEN << Record(track, link, quality, extract_yetracker_id(link), "yetracker") >>
                  ELSE << >>
        ELSE << >>

\* One iteration of the loop of load_tracks: the records (none or one) the
\* row contributes.
ClassifyRow(track) ==
    LET link == track.Link
        quality == Strip(track.Quality)
    IN  IF quality = NotAvailable THEN << >>
        ELSE IF DomainIn(link, "pillows")
             THEN IF extract_pillows_hash(link) # ""
                  THEN << Record(track, link, quality, extract_pillows_hash(link), "pillows") >>
                  ELSE << >>
        ELSE IF DomainIn(link, "yetracker")
             THEN IF extract_yetracker_id(link) # ""
                  THEN << Record(track, link, quality, extract_yetracker_id(link), "yetracker") >>
                  ELSE << >>
        ELSE IF DomainIn(link, "pixeldrain")
             THEN IF extract_pixeldrain_id(link) # ""
                  THEN << Record(track, link, quality, extract_pixeldrain_id(link), "pixeldrain") >>
                  ELSE << >>
        ELSE << >>

\* The list load_tracks builds from the "tracks" of sheet.json.
RECURSIVE ProcessTracks(_)
ProcessTracks(tracks) ==
    IF tracks = << >> THEN << >>
    ELSE ClassifyRow(Head(tracks)) \o ProcessTracks(Tail(tracks))

\* A map built from the list without its last record.
BuildIndexButLast(tracks) ==
    LET most == SubSeq(tracks, 1, Len(tracks) - 1)
    IN  [i \in {most[k].id : k \in 1..Len(most)} |->
            most[CHOOSE k \in 1..Len(most) :
                    /\ most[k].id = i
                    /\ \A j \in 1..Len(most) : most[j].id = i => j <= k]]

\* {t["id"]: t for t in tracks}: a later record replaces an earlier one.
BuildIndex(tracks) ==
    [i \in {tracks[k].id : k \in 1..Len(tracks)} |->
        tracks[CHOOSE k \in 1..Len(tracks) :
                  /\ tracks[k].id = i
                  /\ \A j \in 1..Len(tracks) : tracks[j].id = i => j <= k]]

(***************************************************************************)
(* File names  (player.py:271-281, 352-401)                                *)
(***************************************************************************)
\* A file name is the sequence of its characters.  A percent-encoded octet
\* of a header value ("%2F") is one element until unquote decodes it.
\* filename[:200 - len(ext)]: the length limit of sanitize_filename.
NameLimit == 200

IllegalChars == {"<", ">", ":", "\"", "/", "\\", "|", "?", "*"}

\* re.sub(r'[<>:"/\\|?*]', '_', filename)
ReplaceIllegal(s) == [i \in 1..Len(s) |-> IF s[i] \in IllegalChars THEN "_" ELSE s[i]]

\* filename.strip('. ')
RECURSIVE LStrip(_, _)
LStrip(s, cs) == IF s # << >> /\ Head(s) \in cs THEN LStrip(Tail(s), cs) ELSE s

RECURSIVE RStrip(_, _)
RStrip(s, cs) ==
    IF s # << >> /\ s[Len(s)] \in cs THEN RStrip(SubSeq(s, 1, Len(s) - 1), cs) ELSE s

StripChars(s, cs) == RStrip(LStrip(s, cs), cs)

\* os.path.splitext: the extension starts at the last dot, unless only dots
\* come before it.
ExtStart(s) ==
    LET dots == {i \in 1..Len(s) : s[i] = "." /\ \E j \in 1..(i - 1) : s[j] # "."}
    IN  IF dots = {} THEN Len(s) + 1
        ELSE CHOOSE i \in dots : \A j \in dots : j <= i

SplitName(s) == SubSeq(s, 1, ExtStart(s) - 1)

SplitExt(s) == SubSeq(s, ExtStart(s), Len(s))

\* s[:k] of Python: a negative k counts from the end.
Prefix(s, k) ==
    IF k >= 0 THEN SubSeq(s, 1, IF k < Len(s) THEN k ELSE Len(s))
    ELSE SubSeq(s, 1, IF Len(s) + k > 0 THEN Len(s) + k ELSE 0)

AudioFile == << "a", "u", "d", "i", "o", "_", "f", "i", "l", "e" >>

\* A sanitize_filename without the replacement of the invalid characters.
sanitize_filename_unreplaced(filename) ==
    LET stripped == StripChars(filename, {".", " "})
        limited ==
            IF Len(stripped) > NameLimit
            THEN Prefix(SplitName(stripped), NameLimit - Len(SplitExt(stripped)))
                     \o SplitExt(stripped)
            ELSE stripped
    IN  IF limited = << >> THEN AudioFile ELSE limited

sanitize_filename(filename) ==
    LET replaced == ReplaceIllegal(filename)
        stripped == StripChars(replaced, {".", " "})
        limited ==
            IF Len(stripped) > NameLimit
            THEN Prefix(SplitName(stripped), NameLimit - Len(SplitExt(stripped)))
                     \o SplitExt(stripped)
            ELSE stripped
    IN  IF limited = << >> THEN AudioFile ELSE limited

\* urllib.parse.unquote on the octets the model's headers carry.
Unquote(s) ==
    [i \in 1..Len(s) |->
        CASE s[i] = "%20" -> " "
          [] s[i] = "%2F" -> "/"
          [] s[i] = "%2E" -> "."
          [] OTHER -> s[i]]

\* str.strip() of a header value.
StripBlanks(s) == StripChars(s, {" "})

\* A Content-Disposition header is modelled by the filename parameters the
\* four patterns of download_track find in it (<< >>: the pattern finds
\* nothing): filename*=UTF-8''..., filename="...", filename='...', filename=...
Disposition(star, dq, sq, unq) == [star |-> star, dq |-> dq, sq |-> sq, unq |-> unq]

NoDisposition == Disposition(<< >>, << >>, << >>, << >>)

\* player.py:356-382: the first pattern that matches gives the name.
HeaderFilename(cd) ==
    IF cd.star # << >> THEN Unquote(StripBlanks(cd.star))
    ELSE IF cd.dq # << >> THEN Unquote(cd.dq)
    ELSE IF cd.sq # << >> THEN Unquote(cd.sq)
    ELSE IF cd.unq # << >> THEN
            IF StripBlanks(cd.unq) # << >> THEN Unquote(StripBlanks(cd.unq)) ELSE << >>
    ELSE << >>

\* player.py:387-397: the extension for a Content-Type.
TypeExtension(ctype) ==
    IF ctype \in {"audio/mpeg", "audio/mp3"} THEN << ".", "m", "p", "3" >>
    ELSE IF ctype \in {"audio/mp4", "audio/m4a"} THEN << ".", "m", "4", "a" >>
    ELSE IF ctype = "audio/flac" THEN << ".", "f", "l", "a", "c" >>
    ELSE IF ctype = "audio/wav" THEN << ".", "w", "a", "v" >>
    ELSE IF ctype = "audio/ogg" THEN << ".", "o", "g", "g" >>
    ELSE << ".", "m", "p", "3" >>

\* player.py:353-398: original_filename before it is sanitized.
OriginalFilename(resp) ==
    LET fromHeader == HeaderFilename(resp.cd)
    IN  IF fromHeader # << >> THEN fromHeader
        ELSE << "a", "u", "d", "i", "o" >> \o TypeExtension(resp.ctype)

\* player.py:353-401: the name download_track gives the file of a response.
ResponseFilename(resp) == sanitize_filename(OriginalFilename(resp))

(***************************************************************************)
(* The audio cache on disk  (player.py:284-315)                            *)
(***************************************************************************)
\* The extensions get_audio_path recognizes (player.py:305, 310), in the
\* order of the list.
AudioExtensions ==
    << << ".", "m", "p", "3" >>, << ".", "m", "4", "a" >>,
       << ".", "f", "l", "a", "c" >>, << ".", "w", "a", "v" >>,
       << ".", "o", "g", "g" >>, << ".", "o", "p", "u", "s" >> >>

\* str.lower() on the letters the model's names use.
Lower(s) ==
    [i \in 1..Len(s) |->
        CASE s[i] = "M" -> "m" [] s[i] = "P" -> "p" [] OTHER -> s[i]]

\* Path.suffix: from the last dot of the name; "" when the name has none,
\* starts with its only dot or ends with a dot.
Suffix(name) ==
    LET dots == {i \in 2..Len(name) : name[i] = "."}
    IN  IF dots = {} \/ name[Len(name)] = "." THEN << >>
        ELSE SubSeq(name, CHOOSE i \in dots : \A j \in dots : j <= i, Len(name))

Recognized(name) == \E k \in 1..Len(AudioExtensions) : Lower(Suffix(name)) = AudioExtensions[k]

\* A path under the data directory: a file of an id directory
\* <base(host)>/<file id>/<name> (d names the directory), or a flat file
\* <base(host)>/<file id><ext>.
InDir(d, name) == [kind |-> "path", dir |-> d, name |-> name]

Flat(h, f, ext) == [kind |-> "flat", host |-> h, fid |-> f, ext |-> ext]

(***************************************************************************)
(* The sheet: what the upstream serves and what the files hold             *)
(***************************************************************************)
\* A track row as split_sections returns it (main.py:126-129).
Track(r, era, name, q, link) ==
    [_row |-> r, Era |-> era, Name |-> name, Notes |-> "", Quality |-> q,
     AvailableLength |-> "", TrackLength |-> "3:05", Link |-> link]

SheetA ==
    << Track(2, "E1", "Song", "HQ", << Occ("pillows", "abc") >>),
       Track(3, "E1", "Live", "HQ", << Occ("yetracker", "Yt1") >>) >>

\* SheetA after an edit upstream: row 2 renamed (same link), row 3 withdrawn.
SheetB ==
    << Track(2, "E1", "Song v2", "HQ", << Occ("pillows", "abc") >>),
       Track(3, "E1", "Live", NotAvailable, << Occ("yetracker", "Yt1") >>) >>

\* What a download of the sheet can deliver: a CSV of track rows, or bytes
\* that csv / the decoder reject.
Rows(tracks) == [kind |-> "rows", tracks |-> tracks]

Garbage == [kind |-> "garbage"]

UpstreamBodies == {Rows(SheetA), Rows(SheetB), Garbage}

\* sheet.json: a complete document, or one opened for writing and not yet
\* (or never) completed.
Json(tracks) == [kind |-> "json", tracks |-> tracks]

Partial == [kind |-> "partial"]

Some(v) == [kind |-> "Some", v |-> v]

(***************************************************************************)
(* The file hosts                                                          *)
(***************************************************************************)
Response(cd, ctype) == [cd |-> cd, ctype |-> ctype]

\* A filename*= parameter as the header writes it:
\* filename*=<charset>'<language>'<value>.  The first pattern of
\* download_track, filename\*=UTF-8''([^;]+) without regard to case, finds
\* the value only behind the charset UTF-8 and an empty language.
StarParam(charset, lang, value) == [charset |-> charset, lang |-> lang, value |-> value]

NoStarParam == StarParam("", "", << >>)

StarFound(param) ==
    IF param.charset \in {"UTF-8", "utf-8"} /\ param.lang = "" THEN param.value ELSE << >>

\* The headers of a response: the filename*= parameter, what the three other
\* patterns find, and the Content-Type.
Headers(param, dq, sq, unq, ctype) ==
    [param |-> param, dq |-> dq, sq |-> sq, unq |-> unq, ctype |-> ctype]

ResponseOf(h) == Response(Disposition(StarFound(h.param), h.dq, h.sq, h.unq), h.ctype)

\* File names around the length limit and around the characters
\* sanitize_filename treats: what comes first, the stem, the extension and
\* what comes last.
NameInputs ==
    LET Rep(ch, n) == [i \in 1..n |-> ch]
    IN  {lead \o stem \o ext \o trail :
            lead \in {<< >>, << " " >>, << "." >>, << "/" >>, << "\t" >>},
            stem \in {<< >>, << "a" >>, Rep("a", NameLimit - 4), Rep("a", NameLimit - 3),
                      Rep("a", NameLimit), Rep("a", NameLimit + 50),
                      Rep("a", NameLimit - 1) \o << " " >> \o Rep("b", 50)},
            ext \in {<< >>, << ".", "m", "p", "3" >>, << ".", "m", "?" >>,
                     << "." >> \o Rep("b", NameLimit + 1)},
            trail \in {<< >>, << " " >>, << "." >>}}

\* File names that name another directory: dots only, a parent directory, an
\* absolute path, with the separator as it is or percent-encoded.
HostileNames ==
    {<< "." >>, << ".", "." >>, << ".", ".", "/", "x" >>, << ".", ".", "\\", "x" >>,
     << "/", "e", "t", "c" >>, << ".", ".", "%2F", "x" >>,
     << "a", "/", ".", ".", "/", ".", "." >>, << ".", " ", "." >>}

\* The headers a host may send: a quoted filename of any of the names above,
\* a hostile name in either of the first two parameters, and every
\* combination of the four filename parameters with every Content-Type.
NameHeaders ==
    {Headers(NoStarParam, raw, << >>, << >>, "audio/mpeg") : raw \in NameInputs \ {<< >>}}
    \cup
    {Headers(NoStarParam, raw, << >>, << >>, "audio/mpeg") : raw \in HostileNames}
    \cup
    {Headers(StarParam("UTF-8", "", raw), << >>, << >>, << >>, "audio/mpeg") :
        raw \in HostileNames}
    \cup
    {Headers(param, dq, sq, unq, ctype) :
        param \in {NoStarParam,
                   StarParam("UTF-8", "", << "s", "%2E", "m", "4", "a" >>),
                   StarParam("utf-8", "", << "s", ".", "m", "4", "a" >>),
                   StarParam("UTF-8", "en", << "s", ".", "m", "4", "a" >>)},
        dq \in {<< >>, << "q", ".", "f", "l", "a", "c" >>},
        sq \in {<< >>, << "i", ".", "w", "a", "v" >>},
        unq \in {<< >>, << "u", ".", "o", "g", "g" >>, << " " >>},
        ctype \in {"audio/mpeg", "audio/mp3", "audio/mp4", "audio/m4a", "audio/flac",
                   "audio/wav", "audio/ogg", "video/mp4", ""}}

\* Content-Disposition: attachment; filename="a.mp3"
RespQuoted ==
    Response(Disposition(<< >>, << "a", ".", "m", "p", "3" >>, << >>, << >>),
             "audio/mpeg")

\* Content-Disposition: attachment; filename="a.mp3"; filename*=UTF-8''v.MP4
RespStar ==
    Response(Disposition(<< "v", ".", "M", "P", "4" >>,
                         << "a", ".", "m", "p", "3" >>, << >>, << >>),
             "video/mp4")

\* No Content-Disposition; Content-Type: audio/ogg
RespBare == Response(NoDisposition, "audio/ogg")

\* What a host can answer to a download request.
Responses == {RespQuoted, RespStar, RespBare}

\* The names a download can give a file, in the order a listing of a
\* directory (Path.iterdir) yields them.
NameOrder ==
    << ResponseFilename(RespStar), ResponseFilename(RespBare),
       ResponseFilename(RespQuoted) >>

StoreNames == {NameOrder[k] : k \in 1..Len(NameOrder)}

\* Every record of every catalog the model's sheets give.
AllRecords ==
    UNION {{ProcessTracks(s)[k] : k \in 1..Len(ProcessTracks(s))} : s \in {SheetA, SheetB}}

\* A track id no catalog holds.
UnknownId == << 0, "", "" >>

TrackIds == {r.id : r \in AllRecords} \cup {UnknownId}

\* get_audio_path: base_dir chosen by host (player.py:293-298), as the name
\* of the directory under the data directory.
base_dir(host) ==
    IF host = "yetracker" THEN "audio_yetracker"
    ELSE IF host = "pixeldrain" THEN "audio_pixeldrain"
    ELSE "audio"

\* A download_track that kept one base directory for every host.
download_base_dir_shared(host) == "audio"

\* download_track: base_dir chosen by host (player.py:327-334).
download_base_dir(host) ==
    IF host = "yetracker" THEN "audio_yetracker"
    ELSE IF host = "pixeldrain" THEN "audio_pixeldrain"
    ELSE "audio"

\* Naming the cache entry by a property of the row instead of the file id of
\* the link.
file_id_by_name(track) == track.name

\* file_id = track["hash"] (player.py:290, 324): the file id of the record's
\* link names its cache entry.
file_id(track) == track.hash

\* get_audio_path: id_dir = base_dir / file_id (player.py:290-300), the
\* directory of a record's cache entry.
DirKey(track) == << base_dir(track.host), file_id(track) >>

\* download_track: id_dir = base_dir / file_id (player.py:324-337).
DownloadDir(track) == << download_base_dir(track.host), file_id(track) >>

Dirs == {DirKey(r) : r \in AllRecords} \cup {DownloadDir(r) : r \in AllRecords}

(***************************************************************************)
(* State                                                                   *)
(***************************************************************************)
\* The daemon thread of _background_refresh (Bg) and a waitress request
\* thread.
RequestThreads == {1}

Bg == 0

Threads == {Bg} \cup RequestThreads

VARIABLES
    csvFile,        \* DATA_DIR/sheet.csv
    jsonFile,       \* DATA_DIR/sheet.json (JSON_PATH)
    tracks_cache,   \* _tracks_cache
    track_index,    \* _track_index
    last_refresh,   \* _last_refresh
    now,            \* the clock datetime.now() reads
    pc,             \* per thread: where it stands
    op,             \* per thread: the call it serves (kept after it returns)
    loc,            \* per thread: the local it carries (tracks / processed)
    ret,            \* per thread: what its last call returned
    err,            \* per thread: the exception its last call met
    isdir,          \* the id directories that exist under the audio folders
    disk,           \* per id directory and name: "absent", "empty", "full"
    flat,           \* the flat files <base>/<file id><ext> that exist
    fpc,            \* per caller of api_play: where it stands
    ftid,           \* per caller: the track_id of its request
    ftrack,         \* per caller: its local `track`
    fname,          \* per caller: the audio_path name of its response
    fnet,           \* per caller: its call has issued a network request
    fret,           \* per caller: the outcome of its call
    prev,           \* history: the file the request before this one served
    mode,           \* how main() set the login up: "accounts", "shared", "open"
    users,          \* auth.db: the rows of users, each with the key it came by
    keyUsedBy,      \* auth.db: used_by_user_id of the invite key
    sess,           \* per browser session: its cookie (authenticated, user_id)
    apc,            \* per browser session: where its request stands
    areq,           \* per browser session: the form of its request
    authEvent,      \* history: the last login, registration or logout
    gate,           \* per browser session: what login_required answered
    lock            \* _cache_lock: free, or the thread inside a with block

catalogVars == << csvFile, jsonFile, tracks_cache, track_index, last_refresh, now >>

threadVars == << pc, op, loc, ret, err >>

diskVars == << isdir, disk, flat >>

callerVars == << fpc, ftid, ftrack, fname, fnet, fret, prev >>

authVars == << mode, users, keyUsedBy, sess, apc, areq, authEvent, gate >>

lockVars == << lock >>

vars == << csvFile, jsonFile, tracks_cache, track_index, last_refresh, now,
           pc, op, loc, ret, err, isdir, disk, flat,
           fpc, ftid, ftrack, fname, fnet, fret, prev,
           mode, users, keyUsedBy, sess, apc, areq, authEvent, gate, lock >>

\* The browser sessions, the names users register under and the keys typed
\* into the form: the key of --gen-invite and one that was never made.
Sessions == {1, 2}

UserNames == {"ann", "bob"}

InviteKey == "K1"

InviteInputs == {InviteKey, "K0"}

\* A cookie without "authenticated" and "user_id".
NoSession == [authenticated |-> FALSE, user_id |-> None]

NoForm == [key |-> "", name |-> ""]

\* No account, the key unused, no session logged in, no request.
AuthQuiet(m) ==
    /\ mode = m
    /\ users = {}
    /\ keyUsedBy = None
    /\ sess = [s \in Sessions |-> NoSession]
    /\ apc = [s \in Sessions |-> "idle"]
    /\ areq = [s \in Sessions |-> NoForm]
    /\ authEvent = [s \in Sessions |-> [kind |-> "none", user |-> None]]
    /\ gate = [s \in Sessions |-> "none"]

\* The request threads that serve /api/play in the store specifications.
Callers == {1, 2}

NoRequest == [track |-> None, ret |-> None, wrote |-> FALSE, cached |-> FALSE]

\* How far the clock is followed; it stays at MaxClock afterwards.
MaxClock == 1

\* No thread has entered a call, the audio folders hold nothing but the flat
\* files `legacy` of an earlier layout.
Quiet(legacy) ==
    /\ pc = [t \in Threads |-> "idle"]
    /\ op = [t \in Threads |-> "none"]
    /\ loc = [t \in Threads |-> None]
    /\ ret = [t \in Threads |-> None]
    /\ err = [t \in Threads |-> "none"]
    /\ isdir = {}
    /\ disk = [d \in Dirs |-> [n \in StoreNames |-> "absent"]]
    /\ flat = legacy
    /\ fpc = [c \in Callers |-> "idle"]
    /\ ftid = [c \in Callers |-> UnknownId]
    /\ ftrack = [c \in Callers |-> None]
    /\ fname = [c \in Callers |-> << >>]
    /\ fnet = [c \in Callers |-> FALSE]
    /\ fret = [c \in Callers |-> None]
    /\ prev = NoRequest

\* The state when main() starts the threads.
InitWith(legacy) ==
    /\ csvFile = Rows(SheetA)
    /\ jsonFile = Json(SheetA)
    \* main(): load_tracks() before the threads start (player.py:935)
    /\ tracks_cache = Some(ProcessTracks(SheetA))
    /\ track_index = None
    /\ last_refresh = None
    /\ now = 1
    /\ Quiet(legacy)
    /\ AuthQuiet("open")
    /\ lock = None

Init == InitWith({})

\* The flat files an installation may hold: none, or one beside the base
\* directory of the first host and one beside that of the second.
LegacyFiles ==
    {{}, {Flat("pillows", "abc", AudioExtensions[1]),
          Flat("yetracker", "Yt1", AudioExtensions[1])}}

StoreInit == \E legacy \in LegacyFiles : InitWith(legacy)

\* What follows "/f/" or "/u/" in the links of the sheet: a file id, and file
\* ids followed by a path to another directory.
LinkTexts ==
    {<< "a", "b", "c" >>, << "Y", "t", "1" >>,
     << "a", "b", "/", ".", ".", "/", "x" >>, << ".", ".", "/", "x" >>,
     << "a", "b", "%2F", ".", "." >>, << "Y", "t", "\\", "x" >>}

\* The records load_tracks makes of a row with such a link.
NameTracks ==
    UNION {{ClassifyRow(Track(2, "E1", "Song", "HQ", << HostOccurrence(h, text) >>))[k] :
               k \in 1..Len(ClassifyRow(Track(2, "E1", "Song", "HQ",
                                              << HostOccurrence(h, text) >>)))} :
           h \in Hosts, text \in LinkTexts}

\* download_track has its response (player.py:351): the request thread holds
\* the record and the headers, the file is not yet named.
NameInit ==
    \E h \in NameHeaders : \E track \in NameTracks :
        /\ csvFile = Rows(SheetA)
        /\ jsonFile = Json(SheetA)
        /\ tracks_cache = Some(ProcessTracks(SheetA))
        /\ track_index = None
        /\ last_refresh = None
        /\ now = 1
        /\ pc = [t \in Threads |-> "idle"]
        /\ op = [t \in Threads |-> "none"]
        /\ loc = [t \in Threads |-> IF t \in RequestThreads THEN Some(h) ELSE None]
        /\ ret = [t \in Threads |-> None]
        /\ err = [t \in Threads |-> "none"]
        /\ isdir = {}
        /\ disk = [d \in Dirs |-> [n \in StoreNames |-> "absent"]]
        /\ flat = {}
        /\ fpc = [c \in Callers |-> IF c \in RequestThreads THEN "dt_headers" ELSE "idle"]
        /\ ftid = [c \in Callers |-> UnknownId]
        /\ ftrack = [c \in Callers |-> IF c \in RequestThreads THEN Some(track) ELSE None]
        /\ fname = [c \in Callers |-> << >>]
        /\ fnet = [c \in Callers |-> c \in RequestThreads]
        /\ fret = [c \in Callers |-> None]
        /\ prev = NoRequest
        /\ AuthQuiet("open")
        /\ lock = None

\* The links of the rows load_tracks is fed: no host, each host alone, the
\* first host's domain without a file id, alone, before a link of the third
\* host and before a well-formed link of its own, and a link of the third
\* host before one of the first.
FilterLinks ==
    { << >>,
      << Occ("pillows", "abc") >>,
      << Occ("yetracker", "Yt1") >>,
      << Occ("pixeldrain", "Px1") >>,
      << Occ("pillows", "") >>,
      << Occ("pillows", ""), Occ("pixeldrain", "Px1") >>,
      << Occ("pillows", ""), Occ("pillows", "abc") >>,
      << Occ("pixeldrain", "Px1"), Occ("pillows", "abc") >> }

FilterQualities == {"HQ", NotAvailable}

\* The sheets of at most MaxRows rows.
MaxRows == 2

\* split_sections numbers the rows from 2 on (main.py:107, 127).
FilterSheets ==
    UNION {{[i \in 1..n |-> Track(i + 1, "E1", "Song", qs[i], ls[i])] :
                qs \in [1..n -> FilterQualities], ls \in [1..n -> FilterLinks]} :
           n \in 0..MaxRows}

\* main() before its first load_tracks() (player.py:935): sheet.json as
\* main.py left it, nothing cached.
FilterInit ==
    \E rows \in FilterSheets :
        /\ csvFile = Rows(rows)
        /\ jsonFile = Json(rows)
        /\ tracks_cache = None
        /\ track_index = None
        /\ last_refresh = None
        /\ now = 1
        /\ Quiet({})
        /\ AuthQuiet("open")
        /\ lock = None

(***************************************************************************)
(* _cache_lock  (player.py:101, 180, 251, 260, 266, 157)                   *)
(***************************************************************************)
\* The positions at which a thread stands before a `with _cache_lock:` block
\* (load_tracks: player.py:180, 251; get_track_index: player.py:260, 266;
\* refresh_sheet: player.py:157).
LockEntry == {"lt_check", "lt_publish", "gi_check", "gi_publish", "r_invalidate"}

\* The lock as thread t holds it inside the block it has entered.
HeldBy(t) == Some([by |-> t, at |-> pc[t]])

\* A block that leaves without releasing, as _cache_lock.acquire() without
\* its release() would.
WithCacheLockKept(t) ==
    /\ lock \in {None, HeldBy(t)}
    /\ lock' = lock

\* The body of a `with _cache_lock:` block: it runs with the lock acquired
\* at this block, in one step with the acquisition or after it, and the exit
\* of the block releases the lock.
WithCacheLock(t) ==
    /\ lock \in {None, HeldBy(t)}
    /\ lock' = None

\* threading.Lock.acquire() at the entry of a block: it returns once the lock
\* is free, whoever holds it.
Acquire(t) ==
    /\ pc[t] \in LockEntry
    /\ lock = None
    /\ lock' = HeldBy(t)
    /\ UNCHANGED << catalogVars, threadVars, diskVars, callerVars, authVars >>

(***************************************************************************)
(* load_tracks  (player.py:176-253)                                        *)
(***************************************************************************)
\* A response that carries the records as load_tracks holds them.
api_tracks_whole(tracks) == tracks

\* api_tracks: the entries of the response, one for each record of the list
\* (player.py:728-739).
api_tracks(tracks) ==
    [k \in 1..Len(tracks) |->
        [id |-> tracks[k].id,
         name |-> tracks[k].name,
         era |-> tracks[k].era,
         notes |-> tracks[k].notes,
         quality |-> tracks[k].quality,
         available_length |-> tracks[k].available_length,
         track_length |-> tracks[k].track_length]]

\* A call returns to the thread's caller: load_tracks called from
\* get_track_index goes on there, any other call ends the request.
ReturnTracks(t, tracks) ==
    IF op[t] \in {"index", "play"}
    THEN /\ pc' = [pc EXCEPT ![t] = "gi_publish"]
         /\ loc' = [loc EXCEPT ![t] = Some(tracks)]
         /\ UNCHANGED ret
    ELSE /\ pc' = [pc EXCEPT ![t] = "done"]
         /\ loc' = [loc EXCEPT ![t] = None]
         /\ ret' = [ret EXCEPT ![t] =
                       IF op[t] = "tracks"
                       THEN [kind |-> "listing", v |-> api_tracks(tracks)]
                       ELSE [kind |-> "tracks", v |-> tracks]]

\* An exception that no handler of the subsystem catches ends the request.
Raise(t, e) ==
    /\ pc' = [pc EXCEPT ![t] = "done"]
    /\ loc' = [loc EXCEPT ![t] = None]
    /\ ret' = [ret EXCEPT ![t] = [kind |-> "raised"]]
    /\ err' = [err EXCEPT ![t] = e]

\* The response is sent (a request thread), or the loop goes back to its sleep
\* (the background thread): the call's locals are gone.
Finish(t) ==
    /\ UNCHANGED authVars
    /\ UNCHANGED lockVars
    /\ UNCHANGED << diskVars, callerVars >>
    /\ pc[t] = "done"
    /\ pc' = [pc EXCEPT ![t] = "idle"]
    /\ op' = [op EXCEPT ![t] = "none"]
    /\ ret' = [ret EXCEPT ![t] = None]
    /\ err' = [err EXCEPT ![t] = "none"]
    /\ UNCHANGED << csvFile, jsonFile, tracks_cache, track_index, last_refresh,
                    now, loc >>

\* api_status: a request thread calls load_tracks().
StartLoad(t) ==
    /\ UNCHANGED authVars
    /\ UNCHANGED lockVars
    /\ UNCHANGED << diskVars, callerVars >>
    /\ t \in RequestThreads
    /\ pc[t] = "idle"
    /\ pc' = [pc EXCEPT ![t] = "lt_check"]
    /\ op' = [op EXCEPT ![t] = "load"]
    /\ UNCHANGED << csvFile, jsonFile, tracks_cache, track_index, last_refresh,
                    now, loc, ret, err >>

\* GET /api/tracks: a request thread calls load_tracks() and answers with
\* the entries of api_tracks.
StartTracks(t) ==
    /\ UNCHANGED authVars
    /\ UNCHANGED lockVars
    /\ UNCHANGED << diskVars, callerVars >>
    /\ t \in RequestThreads
    /\ pc[t] = "idle"
    /\ pc' = [pc EXCEPT ![t] = "lt_check"]
    /\ op' = [op EXCEPT ![t] = "tracks"]
    /\ UNCHANGED << csvFile, jsonFile, tracks_cache, track_index, last_refresh,
                    now, loc, ret, err >>

\* with _cache_lock: if _tracks_cache is not None: return _tracks_cache
LtCheck(t) ==
    /\ UNCHANGED authVars
    /\ WithCacheLock(t)
    /\ UNCHANGED << diskVars, callerVars >>
    /\ pc[t] = "lt_check"
    /\ IF tracks_cache # None
       THEN ReturnTracks(t, tracks_cache.v)
       ELSE /\ pc' = [pc EXCEPT ![t] = "lt_read"]
            /\ UNCHANGED << loc, ret >>
    /\ UNCHANGED << csvFile, jsonFile, tracks_cache, track_index, last_refresh,
                    now, op, err >>

\* open(JSON_PATH), json.load, the loop over data["tracks"].
LtRead(t) ==
    /\ UNCHANGED authVars
    /\ UNCHANGED lockVars
    /\ UNCHANGED << diskVars, callerVars >>
    /\ pc[t] = "lt_read"
    /\ IF jsonFile.kind = "json"
       THEN /\ pc' = [pc EXCEPT ![t] = "lt_publish"]
            /\ loc' = [loc EXCEPT ![t] = Some(ProcessTracks(jsonFile.tracks))]
            /\ UNCHANGED << ret, err >>
       ELSE Raise(t, "JSONDecodeError")
    /\ UNCHANGED << csvFile, jsonFile, tracks_cache, track_index, last_refresh,
                    now, op >>

\* with _cache_lock: _tracks_cache = processed; return processed
LtPublish(t) ==
    /\ UNCHANGED authVars
    /\ WithCacheLock(t)
    /\ UNCHANGED << diskVars, callerVars >>
    /\ pc[t] = "lt_publish"
    /\ tracks_cache' = loc[t]
    /\ ReturnTracks(t, loc[t].v)
    /\ UNCHANGED << csvFile, jsonFile, track_index, last_refresh, now, op,
                    err >>

(***************************************************************************)
(* get_track_index  (player.py:256-268)                                    *)
(***************************************************************************)
\* A request (api_play, api_artwork, scrobble) calls get_track_index().
StartIndex(t) ==
    /\ UNCHANGED authVars
    /\ UNCHANGED lockVars
    /\ UNCHANGED << diskVars, callerVars >>
    /\ t \in RequestThreads
    /\ pc[t] = "idle"
    /\ pc' = [pc EXCEPT ![t] = "gi_check"]
    /\ op' = [op EXCEPT ![t] = "index"]
    /\ UNCHANGED << csvFile, jsonFile, tracks_cache, track_index, last_refresh,
                    now, loc, ret, err >>

\* with _cache_lock: if _track_index is not None: return _track_index
GiCheck(t) ==
    /\ UNCHANGED authVars
    /\ WithCacheLock(t)
    /\ UNCHANGED << diskVars, callerVars >>
    /\ pc[t] = "gi_check"
    /\ IF track_index # None
       THEN /\ pc' = [pc EXCEPT ![t] = "done"]
            /\ ret' = [ret EXCEPT ![t] = [kind |-> "index", v |-> track_index.v]]
       ELSE /\ pc' = [pc EXCEPT ![t] = "lt_check"]
            /\ UNCHANGED ret
    /\ UNCHANGED << csvFile, jsonFile, tracks_cache, track_index, last_refresh,
                    now, op, loc, err >>

\* with _cache_lock: _track_index = {t["id"]: t for t in tracks}
GiPublish(t) ==
    /\ UNCHANGED authVars
    /\ WithCacheLock(t)
    /\ UNCHANGED << diskVars, callerVars >>
    /\ pc[t] = "gi_publish"
    /\ track_index' = Some(BuildIndex(loc[t].v))
    /\ pc' = [pc EXCEPT ![t] = "gi_return"]
    /\ loc' = [loc EXCEPT ![t] = None]
    /\ UNCHANGED << csvFile, jsonFile, tracks_cache, last_refresh, now, op,
                    ret, err >>

\* return _track_index: the global is read again, outside the lock.
GiReturn(t) ==
    /\ UNCHANGED authVars
    /\ UNCHANGED lockVars
    /\ UNCHANGED << diskVars, callerVars >>
    /\ pc[t] = "gi_return"
    /\ pc' = [pc EXCEPT ![t] = "done"]
    /\ ret' = [ret EXCEPT ![t] =
                  IF track_index = None THEN [kind |-> "None"]
                  ELSE [kind |-> "index", v |-> track_index.v]]
    /\ UNCHANGED << csvFile, jsonFile, tracks_cache, track_index, last_refresh,
                    now, op, loc, err >>

(***************************************************************************)
(* refresh_sheet  (player.py:139-166) and the loop of _background_refresh  *)
(***************************************************************************)
\* A handler that also drops the published snapshot (as the success path
\* does) would be a plausible slip.
RefreshExceptClears(t, e) ==
    /\ pc' = [pc EXCEPT ![t] = "done"]
    /\ loc' = [loc EXCEPT ![t] = None]
    /\ ret' = [ret EXCEPT ![t] = [kind |-> "bool", v |-> FALSE]]
    /\ err' = [err EXCEPT ![t] = e]
    /\ tracks_cache' = None
    /\ track_index' = None
    /\ UNCHANGED << last_refresh, now >>

\* Without the handler the exception leaves refresh_sheet and ends the
\* thread that called it.
RefreshExceptEscapes(t, e) ==
    /\ pc' = [pc EXCEPT ![t] = "crashed"]
    /\ loc' = [loc EXCEPT ![t] = None]
    /\ ret' = [ret EXCEPT ![t] = [kind |-> "bool", v |-> FALSE]]
    /\ err' = [err EXCEPT ![t] = e]
    /\ UNCHANGED << tracks_cache, track_index, last_refresh, now >>

\* A handler that stamped the time of the refresh that failed.
RefreshExceptStamps(t, e) ==
    /\ pc' = [pc EXCEPT ![t] = "done"]
    /\ loc' = [loc EXCEPT ![t] = None]
    /\ ret' = [ret EXCEPT ![t] = [kind |-> "bool", v |-> FALSE]]
    /\ err' = [err EXCEPT ![t] = e]
    /\ last_refresh' = Some(now)
    /\ UNCHANGED << tracks_cache, track_index, now >>

\* except Exception as e: print(...); return False.  The handler touches
\* none of the globals.
RefreshExcept(t, e) ==
    /\ pc' = [pc EXCEPT ![t] = "done"]
    /\ loc' = [loc EXCEPT ![t] = None]
    /\ ret' = [ret EXCEPT ![t] = [kind |-> "bool", v |-> FALSE]]
    /\ err' = [err EXCEPT ![t] = e]
    /\ UNCHANGED << tracks_cache, track_index, last_refresh, now >>

\* The step of refresh_sheet at `nxt` is reached without an exception.
RefreshGoes(t, nxt, local) ==
    /\ pc' = [pc EXCEPT ![t] = nxt]
    /\ loc' = [loc EXCEPT ![t] = local]
    /\ UNCHANGED << ret, err, tracks_cache, track_index, last_refresh, now >>

\* What a file holds after a writer finished writing `own` to it: its own
\* bytes, unless another writer has the same file open for writing, when the
\* two streams may also leave a mix that no reader can parse.
Written(own, mixed, others) ==
    IF others = {} THEN {own} ELSE {own, mixed}

\* refresh_sheet() is entered: by the background loop after its sleep
\* (player.py:172-173), by a request thread serving POST /api/refresh
\* (player.py:789).
StartRefresh(t) ==
    /\ UNCHANGED authVars
    /\ UNCHANGED lockVars
    /\ UNCHANGED << diskVars, callerVars >>
    /\ pc[t] = "idle"
    /\ pc' = [pc EXCEPT ![t] = "r_download"]
    /\ op' = [op EXCEPT ![t] = "refresh"]
    /\ UNCHANGED << csvFile, jsonFile, tracks_cache, track_index, last_refresh,
                    now, loc, ret, err >>

\* download_sheet: urlopen(export_url), then open(dest_file, "wb"), which
\* empties sheet.csv (main.py:46).
RDownload(t) ==
    /\ UNCHANGED authVars
    /\ UNCHANGED lockVars
    /\ UNCHANGED << diskVars, callerVars >>
    /\ pc[t] = "r_download"
    /\ \/ /\ csvFile' = Rows(<< >>)
          /\ RefreshGoes(t, "r_dl_body", None)
       \/ /\ RefreshExcept(t, "URLError")
          /\ UNCHANGED csvFile
    /\ UNCHANGED << jsonFile, op >>

\* handle.write(response.read())  (main.py:47)
RBody(t) ==
    /\ UNCHANGED authVars
    /\ UNCHANGED lockVars
    /\ UNCHANGED << diskVars, callerVars >>
    /\ pc[t] = "r_dl_body"
    /\ \/ /\ \E b \in UpstreamBodies :
                csvFile' \in Written(b, Garbage,
                                     {u \in Threads \ {t} : pc[u] = "r_dl_body"})
          /\ RefreshGoes(t, "r_parse", None)
       \/ /\ RefreshExcept(t, "URLError")
          /\ UNCHANGED csvFile
    /\ UNCHANGED << jsonFile, op >>

\* load_csv_cleaned(csv_path); split_sections(headers, raw_rows)
RParse(t) ==
    /\ UNCHANGED authVars
    /\ UNCHANGED lockVars
    /\ UNCHANGED << diskVars, callerVars >>
    /\ pc[t] = "r_parse"
    /\ IF csvFile.kind = "rows"
       THEN RefreshGoes(t, "r_save_open", Some(csvFile.tracks))
       ELSE RefreshExcept(t, "csv.Error")
    /\ UNCHANGED << csvFile, jsonFile, op >>

\* save_json: open(path, "w") empties sheet.json (main.py:186).
RSaveOpen(t) ==
    /\ UNCHANGED authVars
    /\ UNCHANGED lockVars
    /\ UNCHANGED << diskVars, callerVars >>
    /\ pc[t] = "r_save_open"
    /\ jsonFile' = Partial
    /\ RefreshGoes(t, "r_save_write", loc[t])
    /\ UNCHANGED << csvFile, op >>

\* save_json: json.dump(payload, handle) and the close (main.py:187).
RSaveWrite(t) ==
    /\ UNCHANGED authVars
    /\ UNCHANGED lockVars
    /\ UNCHANGED << diskVars, callerVars >>
    /\ pc[t] = "r_save_write"
    /\ \/ /\ jsonFile' \in Written(Json(loc[t].v), Partial,
                                   {u \in Threads \ {t} : pc[u] = "r_save_write"})
          /\ RefreshGoes(t, "r_invalidate", loc[t])
       \/ /\ RefreshExcept(t, "OSError")
          /\ UNCHANGED jsonFile
    /\ UNCHANGED << csvFile, op >>

\* with _cache_lock: _tracks_cache = None; _track_index = None;
\* _last_refresh = datetime.now(); then return True
RInvalidate(t) ==
    /\ UNCHANGED authVars
    /\ WithCacheLock(t)
    /\ UNCHANGED << diskVars, callerVars >>
    /\ pc[t] = "r_invalidate"
    /\ tracks_cache' = None
    /\ track_index' = None
    /\ last_refresh' = Some(now)
    /\ now' = IF now < MaxClock THEN now + 1 ELSE now
    /\ pc' = [pc EXCEPT ![t] = "done"]
    /\ loc' = [loc EXCEPT ![t] = None]
    /\ ret' = [ret EXCEPT ![t] = [kind |-> "bool", v |-> TRUE]]
    /\ UNCHANGED << csvFile, jsonFile, op, err >>

(***************************************************************************)
(* The audio store: get_audio_path, download_track, api_play               *)
(***************************************************************************)

\* get_track_index() run without interruption: the published map, or the
\* map built from the published list, or from sheet.json.
IndexNow ==
    IF track_index # None THEN track_index.v
    ELSE IF tracks_cache # None THEN BuildIndex(tracks_cache.v)
    ELSE BuildIndex(ProcessTracks(jsonFile.tracks))

\* What that run of get_track_index() leaves in the module's globals.
GetTrackIndex ==
    /\ jsonFile # Partial
    /\ tracks_cache' =
          IF tracks_cache # None THEN tracks_cache
          ELSE Some(ProcessTracks(jsonFile.tracks))
    /\ track_index' = Some(IndexNow)
    /\ UNCHANGED << csvFile, jsonFile, last_refresh, now >>

\* get_track_index().get(track_id)
IndexGet(id) == IF id \in DOMAIN IndexNow THEN Some(IndexNow[id]) ELSE None

\* The recognized audio files of the record's id directory, as positions of
\* the listing.
Listing(track) ==
    {k \in 1..Len(NameOrder) :
        /\ DirKey(track) \in isdir
        /\ disk[DirKey(track)][NameOrder[k]] # "absent"
        /\ Recognized(NameOrder[k])}

Least(S) == CHOOSE k \in S : \A j \in S : k <= j

\* The extensions of the flat files of a file id, as positions of
\* AudioExtensions.
FlatListing(track) ==
    {k \in 1..Len(AudioExtensions) :
        Flat(track.host, track.hash, AudioExtensions[k]) \in flat}

\* The flat fallback tried for the record of any host.
ResolveTrackAnyHost(track) ==
    IF Listing(track) # {}
    THEN InDir(DirKey(track), NameOrder[Least(Listing(track))])
    ELSE IF FlatListing(track) # {}
    THEN Flat(track.host, track.hash, AudioExtensions[Least(FlatListing(track))])
    ELSE None

\* get_audio_path from the record on: the first recognized file of the id
\* directory, else (pillows only) the first flat file, else None.
ResolveTrack(track) ==
    IF Listing(track) # {}
    THEN InDir(DirKey(track), NameOrder[Least(Listing(track))])
    ELSE IF track.host = "pillows" /\ FlatListing(track) # {}
    THEN Flat(track.host, track.hash, AudioExtensions[Least(FlatListing(track))])
    ELSE None

get_audio_path(track_id) ==
    IF IndexGet(track_id) = None THEN None
    ELSE ResolveTrack(IndexGet(track_id).v)

(***************************************************************************)
(* The bulk downloader's view of the cache  (download_all.py:139-161)      *)
(***************************************************************************)
\* audio_extensions of download_all.get_audio_path (download_all.py:147), in
\* the order of the list.
audio_extensions ==
    AudioExtensions \o
    << << ".", "a", "i", "f" >>, << ".", "a", "i", "f", "f" >>,
       << ".", "m", "p", "4" >>, << ".", "m", "o", "v" >>,
       << ".", "w", "e", "b", "m" >>, << ".", "m", "k", "v" >> >>

\* download_all.py:145: base_dir / file_id.
BulkDirKey(track) ==
    << (IF track.host = "yetracker" THEN "audio_yetracker"
        ELSE IF track.host = "pixeldrain" THEN "audio_pixeldrain"
        ELSE "audio"),
       track.hash >>

\* download_all.py:149-152: the files of the id directory whose suffix is in
\* audio_extensions, as positions of the listing.
BulkListing(track) ==
    {k \in 1..Len(NameOrder) :
        /\ BulkDirKey(track) \in isdir
        /\ disk[BulkDirKey(track)][NameOrder[k]] # "absent"
        /\ \E e \in 1..Len(audio_extensions) :
              Lower(Suffix(NameOrder[k])) = audio_extensions[e]}

\* download_all.py:155-159: the flat files of the file id, as positions of
\* audio_extensions.
BulkFlatListing(track) ==
    {k \in 1..Len(audio_extensions) :
        Flat(track.host, track.hash, audio_extensions[k]) \in flat}

\* download_all.get_audio_path (download_all.py:139-161).
download_all_get_audio_path(track) ==
    IF BulkListing(track) # {}
    THEN InDir(BulkDirKey(track), NameOrder[Least(BulkListing(track))])
    ELSE IF track.host = "pillows" /\ BulkFlatListing(track) # {}
    THEN Flat(track.host, track.hash, audio_extensions[Least(BulkFlatListing(track))])
    ELSE None

NotFound == [kind |-> "404"]

Failed == [kind |-> "500"]

\* An exception leaves api_play: the server answers with its own error page.
Escaped == [kind |-> "raised"]

CallerGoes(c, nxt) ==
    /\ fpc' = [fpc EXCEPT ![c] = nxt]
    /\ UNCHANGED << fret, prev >>

\* api_play returns: the file it serves, or an error response.
PlayReturns(c, r) ==
    /\ fpc' = [fpc EXCEPT ![c] = "done"]
    /\ fret' = [fret EXCEPT ![c] = r]
    /\ UNCHANGED prev

\* A request GET /api/play/<track_id> arrives.
PlayStartOf(c, ids) ==
    /\ UNCHANGED authVars
    /\ UNCHANGED lockVars
    /\ fpc[c] = "idle"
    /\ \E id \in ids : ftid' = [ftid EXCEPT ![c] = id]
    /\ CallerGoes(c, "play_lookup")
    /\ UNCHANGED << ftrack, fname, fnet >>
    /\ UNCHANGED << catalogVars, threadVars, diskVars >>

PlayStart(c) == PlayStartOf(c, TrackIds)

\* api_play: track = get_track_index().get(track_id); 404 without it.
PlayLookup(c) ==
    /\ UNCHANGED authVars
    /\ UNCHANGED lockVars
    /\ fpc[c] = "play_lookup"
    /\ GetTrackIndex
    /\ ftrack' = [ftrack EXCEPT ![c] = IndexGet(ftid[c])]
    /\ IF IndexGet(ftid[c]) = None
       THEN PlayReturns(c, NotFound)
       ELSE CallerGoes(c, "play_resolve")
    /\ UNCHANGED << ftid, fname, fnet >>
    /\ UNCHANGED << threadVars, diskVars >>

\* api_play: get_track_index() is entered (player.py:811), the thread of
\* the request running it step by step beside the refresh.
PlayCallIndex(c) ==
    /\ UNCHANGED authVars
    /\ UNCHANGED lockVars
    /\ fpc[c] = "play_lookup"
    /\ c \in RequestThreads
    /\ pc[c] = "idle"
    /\ pc' = [pc EXCEPT ![c] = "gi_check"]
    /\ op' = [op EXCEPT ![c] = "play"]
    /\ CallerGoes(c, "play_index")
    /\ UNCHANGED << ftid, ftrack, fname, fnet >>
    /\ UNCHANGED << catalogVars, loc, ret, err, diskVars >>

\* api_play: track = <what get_track_index() returned>.get(track_id).  An
\* exception of load_tracks, or the AttributeError of None.get, leaves
\* api_play; an id the map does not hold is answered with 404.
PlayGotIndex(c) ==
    /\ UNCHANGED authVars
    /\ UNCHANGED lockVars
    /\ fpc[c] = "play_index"
    /\ pc[c] = "done"
    /\ op[c] = "play"
    /\ pc' = [pc EXCEPT ![c] = "idle"]
    /\ op' = [op EXCEPT ![c] = "none"]
    /\ ret' = [ret EXCEPT ![c] = None]
    /\ err' = [err EXCEPT ![c] = "none"]
    /\ IF ret[c].kind # "index"
       THEN /\ PlayReturns(c, Escaped)
            /\ UNCHANGED ftrack
       ELSE IF ftid[c] \notin DOMAIN ret[c].v
       THEN /\ PlayReturns(c, NotFound)
            /\ UNCHANGED ftrack
       ELSE /\ CallerGoes(c, "play_resolve")
            /\ ftrack' = [ftrack EXCEPT ![c] = Some(ret[c].v[ftid[c]])]
    /\ UNCHANGED << ftid, fname, fnet >>
    /\ UNCHANGED << catalogVars, loc, diskVars >>

\* A get_audio_path that made the id directory it looks into.
PlayResolveMkdir(c) ==
    /\ UNCHANGED authVars
    /\ UNCHANGED lockVars
    /\ fpc[c] = "play_resolve"
    /\ GetTrackIndex
    /\ IF get_audio_path(ftid[c]) # None
       THEN PlayReturns(c, get_audio_path(ftid[c]))
       ELSE CallerGoes(c, "dt_lookup")
    /\ isdir' = isdir \cup {DirKey(ftrack[c].v)}
    /\ UNCHANGED << ftid, ftrack, fname, fnet >>
    /\ UNCHANGED << threadVars, disk, flat >>

\* api_play: audio_path = get_audio_path(track_id); served when found.
PlayResolve(c) ==
    /\ UNCHANGED authVars
    /\ UNCHANGED lockVars
    /\ fpc[c] = "play_resolve"
    /\ GetTrackIndex
    /\ IF get_audio_path(ftid[c]) # None
       THEN PlayReturns(c, get_audio_path(ftid[c]))
       ELSE CallerGoes(c, "dt_lookup")
    /\ UNCHANGED << ftid, ftrack, fname, fnet >>
    /\ UNCHANGED << threadVars, diskVars >>

\* download_track: track = get_track_index().get(track_id); None without
\* it, which api_play answers with 500.
DtLookup(c) ==
    /\ UNCHANGED authVars
    /\ UNCHANGED lockVars
    /\ fpc[c] = "dt_lookup"
    /\ GetTrackIndex
    /\ ftrack' = [ftrack EXCEPT ![c] = IndexGet(ftid[c])]
    /\ IF IndexGet(ftid[c]) = None
       THEN PlayReturns(c, Failed)
       ELSE CallerGoes(c, "dt_resolve")
    /\ UNCHANGED << ftid, fname, fnet >>
    /\ UNCHANGED << threadVars, diskVars >>

\* download_track: existing_path = get_audio_path(track_id); reused when
\* found.
DtResolve(c) ==
    /\ UNCHANGED authVars
    /\ UNCHANGED lockVars
    /\ fpc[c] = "dt_resolve"
    /\ GetTrackIndex
    /\ IF get_audio_path(ftid[c]) # None
       THEN PlayReturns(c, get_audio_path(ftid[c]))
       ELSE CallerGoes(c, "dt_request")
    /\ UNCHANGED << ftid, ftrack, fname, fnet >>
    /\ UNCHANGED << threadVars, diskVars >>

\* Without the handler of download_track the exception leaves api_play.
FetchExceptEscapes(c) == PlayReturns(c, Escaped)

\* download_track: except Exception: return None (player.py:421-423), which
\* api_play answers with 500 "Failed to download track".
FetchExcept(c) == PlayReturns(c, Failed)

\* download_track: urlopen(download_url); the name of the file comes from the
\* response's headers.  A request that fails raises, download_track returns
\* None and api_play answers 500.
DtRequest(c) ==
    /\ UNCHANGED authVars
    /\ UNCHANGED lockVars
    /\ fpc[c] = "dt_request"
    /\ fnet' = [fnet EXCEPT ![c] = TRUE]
    /\ \/ /\ FetchExcept(c)
          /\ UNCHANGED fname
       \/ /\ \E resp \in Responses :
                fname' = [fname EXCEPT ![c] = ResponseFilename(resp)]
          /\ CallerGoes(c, "dt_mkdir")
    /\ UNCHANGED << ftid, ftrack >>
    /\ UNCHANGED << catalogVars, threadVars, diskVars >>

\* download_track: id_dir.mkdir(parents=True, exist_ok=True), then
\* audio_path.exists(): a file of that name is returned as it is.
DtMkdir(c) ==
    /\ UNCHANGED authVars
    /\ UNCHANGED lockVars
    /\ fpc[c] = "dt_mkdir"
    /\ isdir' = isdir \cup {DownloadDir(ftrack[c].v)}
    /\ IF disk[DownloadDir(ftrack[c].v)][fname[c]] # "absent"
       THEN PlayReturns(c, InDir(DownloadDir(ftrack[c].v), fname[c]))
       ELSE CallerGoes(c, "dt_open")
    /\ UNCHANGED << ftid, ftrack, fname, fnet >>
    /\ UNCHANGED << catalogVars, threadVars, disk, flat >>

\* download_track: open(audio_path, "wb") creates the file, or empties it.
DtOpen(c) ==
    /\ UNCHANGED authVars
    /\ UNCHANGED lockVars
    /\ fpc[c] = "dt_open"
    /\ disk' = [disk EXCEPT ![DownloadDir(ftrack[c].v)][fname[c]] = "empty"]
    /\ CallerGoes(c, "dt_write")
    /\ UNCHANGED << ftid, ftrack, fname, fnet >>
    /\ UNCHANGED << catalogVars, threadVars, isdir, flat >>

\* A handler that removed the file whose write failed.
WriteFailsUnlinks(c) ==
    /\ FetchExcept(c)
    /\ disk' = [disk EXCEPT ![DownloadDir(ftrack[c].v)][fname[c]] = "absent"]

\* download_track: response.read() raises inside open(audio_path, "wb"); the
\* handler prints and returns None, the file stays as open() made it.
WriteFails(c) ==
    /\ FetchExcept(c)
    /\ UNCHANGED disk

\* download_track: f.write(response.read()), return audio_path; a read that
\* fails raises and leaves the file as open() made it.
DtWrite(c) ==
    /\ UNCHANGED authVars
    /\ UNCHANGED lockVars
    /\ fpc[c] = "dt_write"
    /\ \/ /\ disk' = [disk EXCEPT ![DownloadDir(ftrack[c].v)][fname[c]] = "full"]
          /\ PlayReturns(c, InDir(DownloadDir(ftrack[c].v), fname[c]))
       \/ WriteFails(c)
    /\ UNCHANGED << ftid, ftrack, fname, fnet >>
    /\ UNCHANGED << catalogVars, threadVars, isdir, flat >>

\* download_track: original_filename from the response's headers
\* (player.py:352-398).
DtHeaders(c) ==
    /\ UNCHANGED authVars
    /\ UNCHANGED lockVars
    /\ fpc[c] = "dt_headers"
    /\ c \in RequestThreads
    /\ fname' = [fname EXCEPT ![c] = OriginalFilename(ResponseOf(loc[c].v))]
    /\ fpc' = [fpc EXCEPT ![c] = "dt_sanitize"]
    /\ UNCHANGED << ftid, ftrack, fnet, fret, prev >>
    /\ UNCHANGED << catalogVars, threadVars, diskVars >>

\* download_track: original_filename = sanitize_filename(original_filename)
\* (player.py:401); fname keeps what went in, fret what came out.
DtSanitize(c) ==
    /\ UNCHANGED authVars
    /\ UNCHANGED lockVars
    /\ fpc[c] = "dt_sanitize"
    /\ fret' = [fret EXCEPT ![c] = [kind |-> "name", v |-> sanitize_filename(fname[c])]]
    /\ fpc' = [fpc EXCEPT ![c] = "dt_named"]
    /\ UNCHANGED << ftid, ftrack, fname, fnet, prev >>
    /\ UNCHANGED << catalogVars, threadVars, diskVars >>

\* What a request leaves for the next one to be compared with: the file it
\* served, whether download_track fetched it, and whether get_audio_path
\* finds it.
Served(c) ==
    IF fret[c] \in {None, NotFound, Failed, Escaped} THEN NoRequest
    ELSE [track  |-> ftrack[c],
          ret    |-> fret[c],
          wrote  |-> fnet[c],
          cached |-> fret[c] = ResolveTrack(ftrack[c].v)]

\* The response is sent; the thread takes the next request.
PlayFinish(c) ==
    /\ UNCHANGED authVars
    /\ UNCHANGED lockVars
    /\ fpc[c] = "done"
    /\ fpc' = [fpc EXCEPT ![c] = "idle"]
    /\ ftid' = [ftid EXCEPT ![c] = UnknownId]
    /\ ftrack' = [ftrack EXCEPT ![c] = None]
    /\ fname' = [fname EXCEPT ![c] = << >>]
    /\ fnet' = [fnet EXCEPT ![c] = FALSE]
    /\ fret' = [fret EXCEPT ![c] = None]
    /\ UNCHANGED << catalogVars, threadVars, diskVars >>

\* api_artwork: audio_path = get_audio_path(track_id) (player.py:854), for a
\* request the thread takes between two requests for /api/play.  prev keeps the
\* identifier and what the call returned.
ArtworkResolve(c, id) ==
    /\ UNCHANGED authVars
    /\ UNCHANGED lockVars
    /\ fpc[c] = "idle"
    /\ GetTrackIndex
    /\ prev' = [NoRequest EXCEPT !.track = Some(id), !.ret = get_audio_path(id)]
    /\ UNCHANGED << fpc, ftid, ftrack, fname, fnet, fret >>
    /\ UNCHANGED << threadVars, diskVars >>

\* refresh_sheet() run without interruption and with success: the sheet
\* upstream is saved and both caches are invalidated.
SheetRefreshed ==
    /\ UNCHANGED authVars
    /\ UNCHANGED lockVars
    /\ \E s \in {SheetA, SheetB} :
          /\ csvFile' = Rows(s)
          /\ jsonFile' = Json(s)
    /\ tracks_cache' = None
    /\ track_index' = None
    /\ last_refresh' = Some(now)
    /\ now' = IF now < MaxClock THEN now + 1 ELSE now
    /\ UNCHANGED << threadVars, diskVars, callerVars >>

(***************************************************************************)
(* split_sections  (main.py:96-149)                                        *)
(***************************************************************************)
\* current_era before the first era header (main.py:105).
UnknownEra == "Unknown Era"

\* The Era cell of an era header row: counts such as "3 OG File(s)".
HeaderCell == "3 OG File(s)"

\* A row of the sheet as load_csv_cleaned returns it (main.py:76-93): an era
\* header named `name`, or a track row with what its Era cell holds.
RawHeader(name) == [Era |-> HeaderCell, Name |-> name, Notes |-> ""]

RawTrack(era, name) == [Era |-> era, Name |-> name, Notes |-> ""]

\* "OG File(s)" in era_cell (main.py:112)
IsHeader(row) == row.Era = HeaderCell

\* parse_summary_counts (main.py:67-74) on the Era cell of a header.
parse_summary_counts(cell) ==
    IF cell = HeaderCell THEN [k \in {"OG File(s)"} |-> 3] ELSE << >>

\* The loop of split_sections (main.py:107-129) from row number idx on:
\* a header row opens a section and names current_era, a track row inherits
\* current_era when its Era cell is empty and takes its row number.
RECURSIVE SplitLoop(_, _, _, _, _)
SplitLoop(raw_rows, idx, current_era, sections, tracks) ==
    IF raw_rows = << >>
    THEN [current_era |-> current_era, sections |-> sections, tracks |-> tracks]
    ELSE LET row == Head(raw_rows)
             era_name == IF row.Name # "" THEN row.Name ELSE current_era
         IN  IF IsHeader(row)
             THEN SplitLoop(Tail(raw_rows), idx + 1, era_name,
                            Append(sections,
                                   [era |-> era_name,
                                    counts |-> parse_summary_counts(row.Era),
                                    description |-> row.Notes,
                                    row |-> idx]),
                            tracks)
             ELSE SplitLoop(Tail(raw_rows), idx + 1, current_era, sections,
                            Append(tracks,
                                   [Era |-> IF row.Era # "" THEN row.Era ELSE current_era,
                                    Name |-> row.Name,
                                    Notes |-> row.Notes,
                                    _row |-> idx]))

\* Counter(t["Era"] for t in tracks).get(era, 0)  (main.py:132, 134)
era_track_counts(tracks, era) ==
    Cardinality({k \in 1..Len(tracks) : tracks[k].Era = era})

\* The section split_sections inserts first (main.py:138-147).
SyntheticSection(current_era, tracks) ==
    [era |-> current_era, counts |-> << >>, description |-> "", row |-> 2,
     track_count |-> era_track_counts(tracks, current_era)]

\* main.py:132-149: the track counts are attached, the synthetic section is
\* put first, (sections, tracks) is returned.
SplitCounts(current_era, sections, tracks) ==
    LET counted ==
            [k \in 1..Len(sections) |->
                [era |-> sections[k].era,
                 counts |-> sections[k].counts,
                 description |-> sections[k].description,
                 row |-> sections[k].row,
                 track_count |-> era_track_counts(tracks, sections[k].era)]]
    IN  [kind |-> "split",
         sections |->
            IF current_era = UnknownEra \/ era_track_counts(tracks, UnknownEra) > 0
            THEN << SyntheticSection(current_era, tracks) >> \o counted
            ELSE counted,
         tracks |-> tracks]

\* The sheets split_sections is fed: at most MaxRawRows rows, each an era
\* header with a name or without one, or a track row with an Era cell of its
\* own or without one.
MaxRawRows == 3

RawRowForms ==
    {RawHeader("E1"), RawHeader("E2"), RawHeader(""),
     RawTrack("", "Song"), RawTrack("E1", "Live")}

RawSheets == UNION {[1..n -> RawRowForms] : n \in 0..MaxRawRows}

\* refresh_sheet has the rows of the sheet and calls split_sections
\* (player.py:150-151).
SplitInit ==
    \E raw_rows \in RawSheets :
        /\ csvFile = Rows(SheetA)
        /\ jsonFile = Json(SheetA)
        /\ tracks_cache = Some(ProcessTracks(SheetA))
        /\ track_index = None
        /\ last_refresh = None
        /\ now = 1
        /\ pc = [t \in Threads |-> IF t = Bg THEN "ss_loop" ELSE "idle"]
        /\ op = [t \in Threads |-> IF t = Bg THEN "refresh" ELSE "none"]
        /\ loc = [t \in Threads |-> IF t = Bg THEN Some(raw_rows) ELSE None]
        /\ ret = [t \in Threads |-> None]
        /\ err = [t \in Threads |-> "none"]
        /\ isdir = {}
        /\ disk = [d \in Dirs |-> [n \in StoreNames |-> "absent"]]
        /\ flat = {}
        /\ fpc = [c \in Callers |-> "idle"]
        /\ ftid = [c \in Callers |-> UnknownId]
        /\ ftrack = [c \in Callers |-> None]
        /\ fname = [c \in Callers |-> << >>]
        /\ fnet = [c \in Callers |-> FALSE]
        /\ fret = [c \in Callers |-> None]
        /\ prev = NoRequest
        /\ AuthQuiet("open")
        /\ lock = None

\* split_sections: the loop over the rows, numbered from 2 on.
SsLoop(t) ==
    /\ UNCHANGED authVars
    /\ UNCHANGED lockVars
    /\ UNCHANGED << catalogVars, diskVars, callerVars >>
    /\ pc[t] = "ss_loop"
    /\ pc' = [pc EXCEPT ![t] = "ss_counts"]
    /\ ret' = [ret EXCEPT ![t] = SplitLoop(loc[t].v, 2, UnknownEra, << >>, << >>)]
    /\ UNCHANGED << op, loc, err >>

\* split_sections: the counts, the synthetic section, the return.
SsCounts(t) ==
    /\ UNCHANGED authVars
    /\ UNCHANGED lockVars
    /\ UNCHANGED << catalogVars, diskVars, callerVars >>
    /\ pc[t] = "ss_counts"
    /\ pc' = [pc EXCEPT ![t] = "ss_done"]
    /\ ret' = [ret EXCEPT ![t] =
                  SplitCounts(ret[t].current_era, ret[t].sections, ret[t].tracks)]
    /\ UNCHANGED << op, loc, err >>

\* The thread that refreshes the sheet runs split_sections on its rows.
SplitNext ==
    \/ SsLoop(Bg)
    \/ SsCounts(Bg)

SplitSpec == SplitInit /\ [][SplitNext]_vars

(***************************************************************************)
(* Login, registration and the gate of the protected routes                *)
(* (player.py:58-83, 516-577; auth_db.py:72-147)                           *)
(***************************************************************************)
\* The rows of users that exist.  A row an administrator deleted from
\* auth.db is kept with live = FALSE, for its id is not given again
\* (AUTOINCREMENT).
LiveUsers == {u \in users : u.live}

\* An is_authenticated that trusts the cookie alone.
is_authenticated_by_cookie(s) ==
    IF mode = "open" THEN TRUE ELSE sess[s].authenticated

\* is_authenticated (player.py:58-73).
is_authenticated(s) ==
    IF mode = "accounts"
    THEN /\ sess[s].user_id # None
         /\ \E u \in LiveUsers : u.id = sess[s].user_id.v
    ELSE IF mode = "open" THEN TRUE
    ELSE sess[s].authenticated

AuthFrame == UNCHANGED << threadVars, diskVars, callerVars, lockVars >>

\* session["user_id"] = ...; session["authenticated"] = True
LogsIn(s, id) ==
    /\ sess' = [sess EXCEPT ![s] = [authenticated |-> TRUE, user_id |-> id]]
    /\ authEvent' = [authEvent EXCEPT ![s] = [kind |-> "in", user |-> id]]

\* POST /login (player.py:516-537): the form names a user and carries a
\* password that is the right one or not.
Login(s) ==
    /\ apc[s] = "idle"
    /\ \E name \in UserNames : \E right \in BOOLEAN :
          IF mode = "accounts"
          THEN IF right /\ \E u \in LiveUsers : u.name = name
               THEN LogsIn(s, Some((CHOOSE u \in LiveUsers : u.name = name).id))
               ELSE UNCHANGED << sess, authEvent >>
          ELSE IF right
               THEN LogsIn(s, sess[s].user_id)
               ELSE UNCHANGED << sess, authEvent >>
    /\ UNCHANGED << mode, users, keyUsedBy, apc, areq, gate >>
    /\ UNCHANGED catalogVars
    /\ AuthFrame

\* GET /logout (player.py:573-577).
Logout(s) ==
    /\ apc[s] = "idle"
    /\ sess' = [sess EXCEPT ![s] = NoSession]
    /\ authEvent' = [authEvent EXCEPT ![s] = [kind |-> "out", user |-> None]]
    /\ UNCHANGED << mode, users, keyUsedBy, apc, areq, gate >>
    /\ UNCHANGED catalogVars
    /\ AuthFrame

\* The request of register goes on to `nxt`, or ends with an error page.
RegGoes(s, nxt) ==
    /\ apc' = [apc EXCEPT ![s] = nxt]
    /\ areq' = IF nxt = "idle" THEN [areq EXCEPT ![s] = NoForm] ELSE areq
    /\ UNCHANGED << mode, gate >>
    /\ UNCHANGED catalogVars
    /\ AuthFrame

\* POST /register with an invite key, a user name and a password
\* (player.py:540-554).
RegStart(s) ==
    /\ apc[s] = "idle"
    /\ mode = "accounts"
    /\ \E key \in InviteInputs : \E name \in UserNames :
          areq' = [areq EXCEPT ![s] = [key |-> key, name |-> name]]
    /\ apc' = [apc EXCEPT ![s] = "reg_validate"]
    /\ UNCHANGED << mode, users, keyUsedBy, sess, authEvent, gate >>
    /\ UNCHANGED catalogVars
    /\ AuthFrame

\* validate_invite_key (auth_db.py:108-119, player.py:555-556): the key
\* exists and used_at IS NULL.
RegValidate(s) ==
    /\ apc[s] = "reg_validate"
    /\ IF areq[s].key = InviteKey /\ keyUsedBy = None
       THEN RegGoes(s, "reg_create")
       ELSE RegGoes(s, "idle")
    /\ UNCHANGED << users, keyUsedBy, sess, authEvent >>

\* create_user (auth_db.py:90-106, player.py:558-560): the row is inserted
\* and committed, unless the name is taken.
RegCreate(s) ==
    /\ apc[s] = "reg_create"
    /\ IF \E u \in LiveUsers : u.name = areq[s].name
       THEN /\ RegGoes(s, "idle")
            /\ UNCHANGED users
       ELSE /\ users' = users \cup {[id |-> Cardinality(users) + 1,
                                     name |-> areq[s].name,
                                     key |-> areq[s].key,
                                     live |-> TRUE]}
            /\ RegGoes(s, "reg_use")
    /\ UNCHANGED << keyUsedBy, sess, authEvent >>

\* use_invite_key (auth_db.py:122-147, player.py:562-568): UPDATE ... WHERE
\* key = ? AND used_at IS NULL; with no row updated register answers with
\* an error page, with one it logs the session in.
RegUse(s) ==
    /\ apc[s] = "reg_use"
    /\ LET user == CHOOSE u \in users : u.name = areq[s].name /\ u.key = areq[s].key
                                         /\ \A v \in users : v.name = u.name => v.id <= u.id
       IN  IF keyUsedBy = None
           THEN /\ keyUsedBy' = Some(user.id)
                /\ LogsIn(s, Some(user.id))
           ELSE UNCHANGED << keyUsedBy, sess, authEvent >>
    /\ RegGoes(s, "idle")
    /\ UNCHANGED users

\* A row of users is deleted from auth.db, by hand: the server has no
\* operation for it, is_authenticated looks the row up at every request
\* (player.py:63-64).
UserRemoved ==
    /\ mode = "accounts"
    /\ \E u \in LiveUsers :
          users' = (users \ {u}) \cup {[u EXCEPT !.live = FALSE]}
    /\ UNCHANGED << mode, keyUsedBy, sess, apc, areq, authEvent, gate >>
    /\ UNCHANGED catalogVars
    /\ AuthFrame

\* A request for a protected route (player.py:76-83): login_required
\* redirects it to login, or the route runs; get_track_index() stands for
\* what the route does to the catalog.
Gate(s) ==
    /\ apc[s] = "idle"
    /\ apc' = [apc EXCEPT ![s] = "gated"]
    /\ IF is_authenticated(s)
       THEN /\ gate' = [gate EXCEPT ![s] = "executed"]
            /\ GetTrackIndex
       ELSE /\ gate' = [gate EXCEPT ![s] = "redirected"]
            /\ UNCHANGED catalogVars
    /\ UNCHANGED << mode, users, keyUsedBy, sess, areq, authEvent >>
    /\ AuthFrame

\* The response of the protected route is sent.
GateDone(s) ==
    /\ apc[s] = "gated"
    /\ apc' = [apc EXCEPT ![s] = "idle"]
    /\ gate' = [gate EXCEPT ![s] = "none"]
    /\ UNCHANGED << mode, users, keyUsedBy, sess, areq, authEvent >>
    /\ UNCHANGED catalogVars
    /\ AuthFrame

\* main() with --accounts, with APP_USERNAME and APP_PASSWORD, or with
\* neither (player.py:894-935).
AuthInit ==
    /\ csvFile = Rows(SheetA)
    /\ jsonFile = Json(SheetA)
    /\ tracks_cache = Some(ProcessTracks(SheetA))
    /\ track_index = None
    /\ last_refresh = None
    /\ now = 1
    /\ Quiet({})
    /\ \E m \in {"accounts", "shared", "open"} : AuthQuiet(m)
    /\ lock = None

(***************************************************************************)
(* Specifications                                                          *)
(***************************************************************************)
\* The browser sessions log in, register, log out and ask for protected
\* routes, side by side.
AuthNext ==
    \/ \E s \in Sessions :
          \/ Login(s)
          \/ Logout(s)
          \/ RegStart(s)
          \/ RegValidate(s)
          \/ RegCreate(s)
          \/ RegUse(s)
          \/ Gate(s)
          \/ GateDone(s)
    \/ UserRemoved

AuthSpec == AuthInit /\ [][AuthNext]_vars

Next ==
    \E t \in Threads :
        \/ StartLoad(t)
        \/ LtCheck(t)
        \/ LtRead(t)
        \/ LtPublish(t)
        \/ StartIndex(t)
        \/ GiCheck(t)
        \/ GiPublish(t)
        \/ GiReturn(t)
        \/ StartRefresh(t)
        \/ RDownload(t)
        \/ RBody(t)
        \/ RParse(t)
        \/ RSaveOpen(t)
        \/ RSaveWrite(t)
        \/ RInvalidate(t)
        \/ Finish(t)

Spec == Init /\ [][Next]_vars

\* The body of a block of thread t, run after its Acquire.
Section(t) ==
    /\ lock = HeldBy(t)
    /\ \/ LtCheck(t)
       \/ LtPublish(t)
       \/ GiCheck(t)
       \/ GiPublish(t)
       \/ RInvalidate(t)

\* The threads of Spec with the acquisition of _cache_lock as a step of its
\* own: a thread at the entry of a block acquires the lock, then runs the
\* body, which releases it.
LockNext ==
    \E t \in Threads :
        \/ Acquire(t)
        \/ Section(t)
        \/ StartLoad(t)
        \/ LtRead(t)
        \/ StartIndex(t)
        \/ GiReturn(t)
        \/ StartRefresh(t)
        \/ RDownload(t)
        \/ RBody(t)
        \/ RParse(t)
        \/ RSaveOpen(t)
        \/ RSaveWrite(t)
        \/ Finish(t)

LockSpec == Init /\ [][LockNext]_vars

\* The background thread is scheduled: its sleep ends, and a step that waits
\* for nothing but the processor or _cache_lock is taken.  The two network
\* steps of download_sheet carry no timeout and are not assumed to return.
BgLocalStep ==
    \/ StartRefresh(Bg)
    \/ RParse(Bg)
    \/ RSaveOpen(Bg)
    \/ RSaveWrite(Bg)
    \/ RInvalidate(Bg)
    \/ Finish(Bg)

LiveSpec == Init /\ [][Next]_vars /\ WF_vars(BgLocalStep)

\* One request thread serves /api/play, one request after the other, and the
\* sheet is refreshed between requests.
SeqCaller == 1

SeqStoreNext ==
    \/ PlayStart(SeqCaller)
    \/ PlayLookup(SeqCaller)
    \/ PlayResolve(SeqCaller)
    \/ DtLookup(SeqCaller)
    \/ DtResolve(SeqCaller)
    \/ DtRequest(SeqCaller)
    \/ DtMkdir(SeqCaller)
    \/ DtOpen(SeqCaller)
    \/ DtWrite(SeqCaller)
    \/ (PlayFinish(SeqCaller) /\ prev' = Served(SeqCaller))
    \/ (fpc[SeqCaller] = "idle" /\ SheetRefreshed)

SeqStoreSpec == StoreInit /\ [][SeqStoreNext]_vars

\* One request thread serves /api/play and /api/artwork, one request after
\* the other, and the sheet is refreshed between requests.  prev is what
\* the last get_audio_path of /api/artwork returned, forgotten once a request
\* for /api/play has asked the host for the file.
ResolveNext ==
    \/ PlayStart(SeqCaller)
    \/ PlayLookup(SeqCaller)
    \/ PlayResolve(SeqCaller)
    \/ DtLookup(SeqCaller)
    \/ DtResolve(SeqCaller)
    \/ DtRequest(SeqCaller)
    \/ DtMkdir(SeqCaller)
    \/ DtOpen(SeqCaller)
    \/ DtWrite(SeqCaller)
    \/ (PlayFinish(SeqCaller) /\ prev' = IF fnet[SeqCaller] THEN NoRequest ELSE prev)
    \/ (fpc[SeqCaller] = "idle" /\ SheetRefreshed)
    \/ \E id \in TrackIds : ArtworkResolve(SeqCaller, id)

ResolveSpec == StoreInit /\ [][ResolveNext]_vars

\* download_track names the file of a response.
NameNext ==
    \E c \in RequestThreads :
        \/ DtHeaders(c)
        \/ DtSanitize(c)

NameSpec == NameInit /\ [][NameNext]_vars

\* The request threads serve /api/play side by side, between two refreshes
\* of the sheet.
StoreNext ==
    \E c \in Callers :
          \/ PlayStart(c)
          \/ PlayLookup(c)
          \/ PlayResolve(c)
          \/ DtLookup(c)
          \/ DtResolve(c)
          \/ DtRequest(c)
          \/ DtMkdir(c)
          \/ DtOpen(c)
          \/ DtWrite(c)
          \/ (PlayFinish(c) /\ UNCHANGED prev)

StoreSpec == StoreInit /\ [][StoreNext]_vars

\* One thread serves /api/play while the background thread refreshes the
\* sheet: the first get_track_index() of api_play runs step by step.  The
\* requests are for the row the sheets differ in, and for an unknown id.
RaceIds == {generate_track_id(SheetA[1]), generate_track_id(SheetB[1]), UnknownId}

PlayRaceNext ==
    \/ StartRefresh(Bg)
    \/ RDownload(Bg)
    \/ RBody(Bg)
    \/ RParse(Bg)
    \/ RSaveOpen(Bg)
    \/ RSaveWrite(Bg)
    \/ RInvalidate(Bg)
    \/ Finish(Bg)
    \/ PlayStartOf(SeqCaller, RaceIds)
    \/ PlayCallIndex(SeqCaller)
    \/ GiCheck(SeqCaller)
    \/ LtCheck(SeqCaller)
    \/ LtRead(SeqCaller)
    \/ LtPublish(SeqCaller)
    \/ GiPublish(SeqCaller)
    \/ GiReturn(SeqCaller)
    \/ PlayGotIndex(SeqCaller)
    \/ PlayResolve(SeqCaller)
    \/ DtLookup(SeqCaller)
    \/ DtResolve(SeqCaller)
    \/ DtRequest(SeqCaller)
    \/ DtMkdir(SeqCaller)
    \/ DtOpen(SeqCaller)
    \/ DtWrite(SeqCaller)
    \/ (PlayFinish(SeqCaller) /\ UNCHANGED prev)

PlayRaceSpec == Init /\ [][PlayRaceNext]_vars

\* load_tracks() and get_track_index() on any sheet.json, called again and
\* again by one thread.
FilterNext ==
    \E t \in RequestThreads :
        \/ StartLoad(t)
        \/ StartTracks(t)
        \/ LtCheck(t)
        \/ LtRead(t)
        \/ LtPublish(t)
        \/ StartIndex(t)
        \/ GiCheck(t)
        \/ GiPublish(t)
        \/ GiReturn(t)
        \/ Finish(t)

FilterSpec == FilterInit /\ [][FilterNext]_vars

(***************************************************************************)
(* Properties of the catalog index and the refresh scheduler               *)
(***************************************************************************)
\* The pcs of refresh_sheet's download / process / save section: the sheet
\* is being received, parsed or saved.
RefreshSection == {"r_dl_body", "r_parse", "r_save_open", "r_save_write"}

Refreshing == {t \in Threads : pc[t] \in RefreshSection}

\* C3: whenever both the published list and the published id map are set,
\* the map is the one built from that list.
C3_ListMapCoherence ==
    (tracks_cache # None /\ track_index # None)
        => track_index.v = BuildIndex(tracks_cache.v)

\* The complete catalogs of the sheets the upstream serves.
CompleteCatalogs ==
    {ProcessTracks(b.tracks) : b \in {x \in UpstreamBodies : x.kind = "rows"}}

\* C4: every load() / byId() call returns a complete catalog (the old or the
\* new one, as a list or as its id map); none fails, none returns nothing.
C4_OldOrNewReads ==
    \A t \in Threads :
        (pc[t] = "done" /\ op[t] \in {"load", "index"})
            => /\ ret[t].kind \in {"tracks", "index"}
               /\ \/ ret[t].kind # "tracks"
                  \/ ret[t].v \in CompleteCatalogs
               /\ \/ ret[t].kind # "index"
                  \/ \E c \in CompleteCatalogs : ret[t].v = BuildIndex(c)

\* What a load_tracks() call made now, alone, returns.
LoadView ==
    IF tracks_cache # None THEN [kind |-> "tracks", v |-> tracks_cache.v]
    ELSE IF jsonFile.kind = "json"
         THEN [kind |-> "tracks", v |-> ProcessTracks(jsonFile.tracks)]
         ELSE [kind |-> "raised"]

\* refresh_sheet of thread t ends in its handler because the upstream was
\* unreachable (urlopen, response.read) or unparsable (csv).
UpstreamFailure(t) ==
    /\ pc[t] \in {"r_download", "r_dl_body", "r_parse"}
    /\ pc'[t] = "done"

\* C5: a refresh that fails on the upstream returns False and leaves what
\* load() returns, the published list and the published id map as they were.
C5_FailedRefreshHarmless ==
    [][\A t \in Threads :
          UpstreamFailure(t)
              => /\ ret'[t] = [kind |-> "bool", v |-> FALSE]
                 /\ LoadView' = LoadView
                 /\ tracks_cache' = tracks_cache
                 /\ track_index' = track_index]_vars

\* C5 witness: a refresh has failed on the upstream while a catalog was
\* published.
C5_Witness ==
    \E t \in Threads :
        /\ pc[t] = "done"
        /\ op[t] = "refresh"
        /\ ret[t].kind = "bool"
        /\ ret[t].v = FALSE
        /\ err[t] \in {"URLError", "csv.Error"}
        /\ tracks_cache # None

\* C6: once a refresh has completed and none is writing or about to
\* invalidate, a load() that starts returns the catalog of the current
\* sheet.json (the cached list it is about to return is that catalog).
C6_NoStaleRepublish ==
    \A t \in Threads :
        ( /\ pc[t] = "lt_check"
          /\ op[t] = "load"
          /\ last_refresh # None
          /\ tracks_cache # None
          /\ jsonFile.kind = "json"
          /\ \A u \in Threads : pc[u] \notin {"r_save_write", "r_invalidate"} )
            => tracks_cache.v = ProcessTracks(jsonFile.tracks)

\* C7: at most one thread is inside refresh_sheet's download / process /
\* save section.
C7_RefreshSerialized == Cardinality(Refreshing) <= 1

\* C8: after a refresh that has met an exception, of the download, the
\* parsing or the saving, the background loop is running a refresh again (it
\* has started another one, or is still in its own).
C8_FailedRefreshRetried ==
    (\E t \in Threads : op[t] = "refresh" /\ err[t] # "none")
    ~> (pc[Bg] \in RefreshSection \cup {"r_download", "r_invalidate"})

\* C8 witness: a refresh of the background thread has failed while saving.
C8_Witness ==
    /\ pc[Bg] = "done"
    /\ ret[Bg].kind = "bool"
    /\ ret[Bg].v = FALSE
    /\ err[Bg] = "OSError"

(***************************************************************************)
(* Properties of the audio store                                           *)
(***************************************************************************)
IsFile(r) == r \notin {None, NotFound, Failed, Escaped}

\* The request c has answered follows, on the same thread, a request for the
\* same record in which download_track wrote the file it returned.
RepeatsFetch(c) ==
    /\ fpc[c] = "done"
    /\ prev.wrote
    /\ ftrack[c] # None
    /\ ftrack[c] = prev.track

\* C1: sequential at-most-once download.  When download_track has written a
\* file for a record and the same record is requested again with nothing
\* else touching the disk in between, the second request issues no network
\* request and returns the path the first one wrote.
C1_SequentialAtMostOnce ==
    \A c \in Callers :
        RepeatsFetch(c) => (~fnet[c] /\ fret[c] = prev.ret)

\* A request is in flight from the moment download_track has sent its
\* request to the host until the file is written.
InFlight(c) == fnet[c] /\ fpc[c] \in {"dt_mkdir", "dt_open", "dt_write"}

\* C2: concurrent at-most-once download.  Of the callers that fetch the
\* same identifier at most one has a fetch in flight at any time, and two
\* callers that have both answered a request for the same identifier have
\* issued one network request between them and return the same path.
C2_ConcurrentAtMostOnce ==
    \A c1, c2 \in Callers :
        (c1 # c2 /\ ftrack[c1] # None /\ ftrack[c2] # None
            /\ ftrack[c1].v.host = ftrack[c2].v.host
            /\ ftrack[c1].v.hash = ftrack[c2].v.hash)
        => /\ ~(InFlight(c1) /\ InFlight(c2))
           /\ (fpc[c1] = "done" /\ fpc[c2] = "done"
                  /\ IsFile(fret[c1]) /\ IsFile(fret[c2]))
                 => (~(fnet[c1] /\ fnet[c2]) /\ fret[c1] = fret[c2])

\* The request c has answered follows a request for a record of the same
\* host and file id under another track id, to which the cached file of
\* that record was returned.
SameLinkNewId(c) ==
    /\ fpc[c] = "done"
    /\ prev.cached
    /\ ftrack[c] # None
    /\ ftrack[c].v.host = prev.track.v.host
    /\ ftrack[c].v.hash = prev.track.v.hash
    /\ ftrack[c].v.id # prev.track.v.id

\* C9: the cache survives row changes.  A record whose track id has changed
\* with a refresh while its link has not is served the file cached for it
\* before the refresh, with no network request.
C9_CacheSurvivesRowChanges ==
    \A c \in Callers :
        SameLinkNewId(c) => (~fnet[c] /\ fret[c] = prev.ret)

C9_Witness ==
    /\ SameLinkNewId(SeqCaller)
    /\ prev.wrote
    /\ last_refresh # None
    /\ fret[SeqCaller] = prev.ret
    /\ fret[SeqCaller].kind = "path"

(***************************************************************************)
(* Properties of the catalog filter                                        *)
(***************************************************************************)
\* A call of load_tracks has returned its list.
Loaded(t) == pc[t] = "done" /\ op[t] = "load" /\ ret[t].kind = "tracks"

\* The records of the returned list that come from the row.
RecordsOf(t, row) ==
    {k \in 1..Len(ret[t].v) : ret[t].v[k].id = generate_track_id(row)}

\* The hosts whose domain occurs in the link.
HostsIn(link) == {h \in Hosts : DomainIn(link, h)}

\* The first host, in the order of the tests of load_tracks, whose domain
\* occurs in the link.
FirstHost(link) ==
    IF DomainIn(link, "pillows") THEN "pillows"
    ELSE IF DomainIn(link, "yetracker") THEN "yetracker"
    ELSE "pixeldrain"

\* C10 as stated: a row is in the catalog if and only if its quality is not
\* "Not Available", its link matches exactly one supported host, and that
\* host's pattern yields a non-empty identifier.
C10_ExactlyOneHost ==
    \A t \in RequestThreads :
        Loaded(t) =>
            \A i \in 1..Len(jsonFile.tracks) :
                LET row == jsonFile.tracks[i]
                IN  (RecordsOf(t, row) # {})
                    <=> /\ row.Quality # NotAvailable
                        /\ Cardinality(HostsIn(row.Link)) = 1
                        /\ \E h \in HostsIn(row.Link) : ExtractId(row.Link, h) # ""

\* C10, amended: a row is in the catalog if and only if its quality is not
\* "Not Available" and the first host, in the order pillows, yetracker,
\* pixeldrain, whose domain occurs in its link yields a non-empty identifier;
\* the row then has one record, of that host and identifier, and no row
\* makes load_tracks raise.
C10_FirstHostDecides ==
    \A t \in RequestThreads :
        /\ (pc[t] = "done" /\ op[t] = "load") => ret[t].kind = "tracks"
        /\ Loaded(t) =>
            \A i \in 1..Len(jsonFile.tracks) :
                LET row == jsonFile.tracks[i]
                    h == FirstHost(row.Link)
                    kept == /\ row.Quality # NotAvailable
                            /\ HostsIn(row.Link) # {}
                            /\ ExtractId(row.Link, h) # ""
                IN  /\ (RecordsOf(t, row) # {}) <=> kept
                    /\ kept => /\ Cardinality(RecordsOf(t, row)) = 1
                               /\ \A k \in RecordsOf(t, row) :
                                     /\ ret[t].v[k].host = h
                                     /\ ret[t].v[k].hash = ExtractId(row.Link, h)

\* A list is returned that holds a row of two hosts under the first of them
\* and drops a row whose first host has no file id.
C10_Witness ==
    \E t \in RequestThreads :
        /\ Loaded(t)
        /\ Len(jsonFile.tracks) = 2
        /\ Cardinality(HostsIn(jsonFile.tracks[1].Link)) = 2
        /\ RecordsOf(t, jsonFile.tracks[1]) # {}
        /\ jsonFile.tracks[2].Quality # NotAvailable
        /\ Cardinality(HostsIn(jsonFile.tracks[2].Link)) = 2
        /\ RecordsOf(t, jsonFile.tracks[2]) = {}

\* The records a thread holds or has been returned: the list of load_tracks,
\* the map of get_track_index.
RecordsHeld(t) ==
    (IF loc[t] # None THEN {loc[t].v[k] : k \in 1..Len(loc[t].v)} ELSE {})
    \cup (IF ret[t].kind = "tracks"
          THEN {ret[t].v[k] : k \in 1..Len(ret[t].v)} ELSE {})
    \cup (IF ret[t].kind = "index"
          THEN {ret[t].v[i] : i \in DOMAIN ret[t].v} ELSE {})

\* The records of the published list and of the published id map.
RecordsPublished ==
    (IF tracks_cache # None
     THEN {tracks_cache.v[k] : k \in 1..Len(tracks_cache.v)} ELSE {})
    \cup (IF track_index # None
          THEN {track_index.v[i] : i \in DOMAIN track_index.v} ELSE {})

\* The rows of sheet.json whose quality is the sentinel.
UnavailableRows ==
    IF jsonFile.kind = "json"
    THEN {jsonFile.tracks[i] : i \in {j \in 1..Len(jsonFile.tracks) :
                                        jsonFile.tracks[j].Quality = NotAvailable}}
    ELSE {}

\* C11: no row whose quality is "Not Available" is in the catalog list or in
\* the id map, published or returned, whatever its link is: no record
\* carries that quality, and no record carries the id of such a row.
C11_UnavailableExcluded ==
    \A r \in RecordsPublished \cup UNION {RecordsHeld(t) : t \in Threads} :
        /\ r.quality # NotAvailable
        /\ \A row \in UnavailableRows : r.id # generate_track_id(row)

\* The list and the map are published for a sheet that holds an unavailable
\* row with a well-formed link of the first host beside an included row.
C11_Witness ==
    /\ tracks_cache # None
    /\ track_index # None
    /\ DOMAIN track_index.v # {}
    /\ \E row \in UnavailableRows : extract_pillows_hash(row.Link) # ""

\* The id of a row number, an era and a name: the key the digest of
\* generate_track_id is taken of.
TrackKey(row, era, name) == << row, era, name >>

\* The rows of sheet.json a record can come from: those of its link and
\* quality.
RowsOf(r) ==
    {i \in 1..Len(jsonFile.tracks) :
        /\ jsonFile.tracks[i].Link = r.original_link
        /\ jsonFile.tracks[i].Quality = r.quality}

\* C12: the track id is a function of the row number, the era and the name
\* only.  Every record of a list or a map, whatever the link, the quality,
\* the notes and the lengths of its row, carries the id of the triple of a
\* row it comes from, and two records of one triple carry one id.
C12_IdOfTripleOnly ==
    LET held == RecordsPublished \cup UNION {RecordsHeld(t) : t \in Threads}
    IN  /\ \A r \in held :
              \E i \in RowsOf(r) :
                  r.id = TrackKey(jsonFile.tracks[i]._row,
                                  jsonFile.tracks[i].Era,
                                  jsonFile.tracks[i].Name)
        /\ \A t \in Threads :
              ret[t].kind = "index" =>
                  \A i \in DOMAIN ret[t].v : ret[t].v[i].id = i

\* A list of two records is returned whose rows differ in their links.
C12_Witness ==
    \E t \in RequestThreads :
        /\ Loaded(t)
        /\ Len(ret[t].v) = 2
        /\ ret[t].v[1].host # ret[t].v[2].host
        /\ ret[t].v[1].id = TrackKey(2, ret[t].v[1].era, ret[t].v[1].name)
        /\ ret[t].v[2].id = TrackKey(3, ret[t].v[2].era, ret[t].v[2].name)

\* C13: play(id) has exactly three outcomes: NotFound, answered without a
\* network request, FetchFailed, and the file that is served.
C13_ThreeOutcomes ==
    \A c \in Callers :
        fpc[c] = "done" =>
            /\ fret[c] \in {NotFound, Failed} \/ fret[c].kind \in {"path", "flat"}
            /\ fret[c] = NotFound => ~fnet[c]

\* C14: fetch failures are surfaced, not retried.  A call of download_track
\* that is about to send its request has sent none before, and a call that
\* has sent one ends with the file it returns or, after a failure of the
\* request or of the write, with FetchFailed: no exception leaves api_play.
C14_FailureSurfaced ==
    \A c \in Callers :
        /\ fpc[c] = "dt_request" => ~fnet[c]
        /\ (fpc[c] = "done" /\ fnet[c]) =>
              \/ fret[c] = Failed
              \/ /\ fret[c].kind = "path"
                 /\ disk[fret[c].dir][fret[c].name] # "absent"

\* A request has failed and was answered with FetchFailed, and a write has
\* failed, leaving its file empty.
C14_Witness ==
    \E c \in Callers :
        /\ fpc[c] = "done"
        /\ fnet[c]
        /\ fret[c] = Failed
        /\ fname[c] = << >>
        /\ \E d \in Dirs : \E n \in StoreNames : disk[d][n] = "empty"

\* The entry of a row in the listing: the id of its triple and its display
\* fields, nothing of its link.
EntryOfRow(row) ==
    [id |-> TrackKey(row._row, row.Era, row.Name),
     name |-> row.Name,
     era |-> row.Era,
     notes |-> row.Notes,
     quality |-> row.Quality,
     available_length |-> row.AvailableLength,
     track_length |-> row.TrackLength]

\* GET /api/tracks has been answered.
Listed(t) == pc[t] = "done" /\ op[t] = "tracks" /\ ret[t].kind = "listing"

\* C15: the track listing leaks no link data.  The listing has one entry for
\* each record of the catalog, in its order, and the entry is that of the
\* record's row: the seven fields id, name, era, notes, quality,
\* available_length and track_length and no other, none computed from the
\* link.
C15_ListingWithoutLinks ==
    \A t \in RequestThreads :
        Listed(t) =>
            /\ tracks_cache # None
            /\ Len(ret[t].v) = Len(tracks_cache.v)
            /\ \A k \in 1..Len(ret[t].v) :
                  \E i \in RowsOf(tracks_cache.v[k]) :
                      /\ generate_track_id(jsonFile.tracks[i]) = tracks_cache.v[k].id
                      /\ ret[t].v[k] = EntryOfRow(jsonFile.tracks[i])

\* A listing of two entries is returned for rows of different hosts.
C15_Witness ==
    \E t \in RequestThreads :
        /\ Listed(t)
        /\ Len(ret[t].v) = 2
        /\ tracks_cache.v[1].host # tracks_cache.v[2].host

\* The files of an id directory.
FilesIn(d) == {n \in StoreNames : disk[d][n] # "absent"}

\* C16: one file per cache entry.  Every id directory holds at most one
\* file, and the directory of a file that download_track has returned holds
\* exactly one.
C16_OneFilePerEntry ==
    /\ \A d \in Dirs : Cardinality(FilesIn(d)) <= 1
    /\ \A c \in Callers :
          (fpc[c] = "done" /\ fnet[c] /\ IsFile(fret[c]))
              => Cardinality(FilesIn(fret[c].dir)) = 1

\* A step of refresh_sheet, of whichever thread runs it.
RefreshStep ==
    \E t \in Threads :
        /\ pc'[t] # pc[t]
        /\ op[t] = "refresh" \/ op'[t] = "refresh"

\* C17: cache entries are never removed.  No step takes a file out of an id
\* directory, a legacy file out of the base directory or an id directory
\* away, and a step of refresh_sheet, failing or not, leaves the audio cache
\* as it was.
C17_CacheOnlyGrows ==
    [][/\ \A d \in Dirs : FilesIn(d) \subseteq {n \in StoreNames : disk'[d][n] # "absent"}
       /\ flat \subseteq flat'
       /\ isdir \subseteq isdir'
       /\ RefreshStep => UNCHANGED diskVars]_vars

\* C17: a refresh has failed, and another has succeeded, beside a cached
\* file.
C17_Witness ==
    /\ \E d \in Dirs : FilesIn(d) # {}
    /\ pc[Bg] = "done"
    /\ op[Bg] = "refresh"
    /\ err[Bg] # "none"
    /\ last_refresh # None

\* The files of the record's id directory that carry a recognized extension,
\* and the flat files under its host's base directory named by its file id.
RecognizedIn(track) ==
    {n \in StoreNames :
        /\ << base_dir(track.host), track.hash >> \in isdir
        /\ disk[<< base_dir(track.host), track.hash >>][n] # "absent"
        /\ Recognized(n)}

FlatOf(track) == {f \in flat : f.host = track.host /\ f.fid = track.hash}

\* C18: the result of get_audio_path.  For every record of the index it is a
\* recognized file of the record's id directory when there is one; failing
\* that, and for a pillows record only, a flat file named by the file id
\* when there is one; failing that, None.  A request served without a fetch
\* is served that result.
C18_ResolveResult ==
    /\ \A id \in DOMAIN IndexNow :
          LET track == IndexNow[id]
              r == get_audio_path(id)
          IN  IF RecognizedIn(track) # {}
              THEN /\ r # None
                   /\ r.kind = "path"
                   /\ r.dir = << base_dir(track.host), track.hash >>
                   /\ r.name \in RecognizedIn(track)
              ELSE IF track.host = "pillows" /\ FlatOf(track) # {}
              THEN r \in FlatOf(track)
              ELSE r = None
    /\ \A c \in Callers :
          (fpc[c] = "done" /\ ~fnet[c] /\ IsFile(fret[c]))
              => fret[c] = get_audio_path(ftid[c])
    /\ \A c \in Callers :
          fpc[c] = "dt_request" => get_audio_path(ftid[c]) = None

\* C18: get_audio_path has returned None for a yetracker record whose id
\* directory holds a file without a recognized extension, with a flat file
\* of its file id under the base directory.
C18_Witness ==
    \E c \in Callers :
        /\ fpc[c] = "dt_request"
        /\ ftrack[c] # None
        /\ ftrack[c].v.host = "yetracker"
        /\ FlatOf(ftrack[c].v) # {}
        /\ FilesIn(DirKey(ftrack[c].v)) # {}

\* C19: get_audio_path is idempotent.  A call for the identifier of the call
\* before it, no file having been fetched since, returns what that call
\* returned, whether or not the sheet was refreshed between the two.
C19_ResolveIdempotent ==
    [][\A id \in TrackIds :
          (ArtworkResolve(SeqCaller, id) /\ prev.track = Some(id)) => prev'.ret = prev.ret]_vars

\* A caller's call of get_audio_path returns, in api_play or in
\* download_track.
ResolveReturns(c) ==
    /\ fpc[c] \in {"play_resolve", "dt_resolve"}
    /\ fpc'[c] # fpc[c]

\* C20: get_audio_path has no effects.  The step in which a call of it
\* returns asks no host for anything and leaves the directories, the files
\* of the audio cache and the sheet's files as they were, whatever the other
\* request thread is doing.
C20_ResolveWithoutEffects ==
    [][\A c \in Callers :
          ResolveReturns(c) =>
              /\ UNCHANGED diskVars
              /\ UNCHANGED << csvFile, jsonFile >>
              /\ UNCHANGED << fnet, fname >>]_vars

\* C20: a request has been served what get_audio_path found while the other
\* request thread was writing a file.
C20_Witness ==
    \E c \in Callers : \E d \in Callers \ {c} :
        /\ fpc[c] = "done"
        /\ ~fnet[c]
        /\ IsFile(fret[c])
        /\ fpc[d] = "dt_write"

\* C21: the layout on disk.  A step that changes a file of the audio cache is
\* a step of a download for a record, and the file is
\* audio/<file id>/<name> for a pillows record, audio_yetracker/<file id>/<name>
\* for a yetracker record and audio_pixeldrain/<file id>/<name> for a
\* pixeldrain record, <name> being a sanitized name; no step writes a flat
\* file; get_audio_path and download_track choose one base directory for a
\* host, and two hosts never the same.
C21_Layout ==
    [][LET layout == [h \in Hosts |->
                         CASE h = "pillows" -> "audio"
                           [] h = "yetracker" -> "audio_yetracker"
                           [] h = "pixeldrain" -> "audio_pixeldrain"]
       IN  /\ flat' = flat
           /\ \A d \in Dirs : \A n \in StoreNames :
                 disk'[d][n] # disk[d][n] =>
                     \E c \in Callers :
                         /\ ftrack[c] # None
                         /\ d = << layout[ftrack[c].v.host], ftrack[c].v.hash >>
                         /\ n = fname[c]
                         /\ sanitize_filename(n) = n
           /\ \A r \in AllRecords :
                 /\ DirKey(r) = << layout[r.host], r.hash >>
                 /\ DownloadDir(r) = DirKey(r)
           /\ \A h \in Hosts : base_dir(h) = layout[h] /\ download_base_dir(h) = layout[h]
           /\ \A h1 \in Hosts : \A h2 \in Hosts \ {h1} : base_dir(h1) # base_dir(h2)]_vars

\* C21: download_track has written the file of a yetracker record.
C21_Witness ==
    \E c \in Callers :
        /\ fpc[c] = "done"
        /\ fnet[c]
        /\ IsFile(fret[c])
        /\ ftrack[c].v.host = "yetracker"
        /\ disk[<< "audio_yetracker", ftrack[c].v.hash >>][fret[c].name] = "full"

\* C22: the length bound of sanitize_filename.  The name it returns has at
\* most 200 characters, and for an input of more than 200 characters it ends
\* with the extension of the input, the part from its last dot on once the
\* characters are replaced and the ends stripped.
C22_LengthBound ==
    \A c \in Callers :
        fpc[c] = "dt_named" =>
            LET out == fret[c].v
                ext == SplitExt(StripChars(ReplaceIllegal(fname[c]), {".", " "}))
            IN  /\ Len(out) <= NameLimit
                /\ Len(fname[c]) > NameLimit =>
                      /\ Len(out) >= Len(ext)
                      /\ SubSeq(out, Len(out) - Len(ext) + 1, Len(out)) = ext

\* C23: the characters of a sanitized name.  The name sanitize_filename
\* returns is not empty, holds none of < > : " / \ | ? * and neither starts
\* nor ends with a dot or a space.
C23_SafeCharacters ==
    \A c \in Callers :
        fpc[c] = "dt_named" =>
            LET out == fret[c].v
            IN  /\ out # << >>
                /\ \A i \in 1..Len(out) : out[i] \notin IllegalChars
                /\ out[1] \notin {".", " "}
                /\ out[Len(out)] \notin {".", " "}

\* C24: the fallback name.  sanitize_filename returns "audio_file" for the
\* empty string and for every name made of whitespace only, or of dots and
\* spaces only.
C24_FallbackName ==
    /\ sanitize_filename(<< >>) = AudioFile
    /\ \A c \in Callers :
          (/\ fpc[c] = "dt_named"
           /\ \A i \in 1..Len(fname[c]) : fname[c][i] \in {" ", "\t", "."})
              => fret[c].v = AudioFile

\* C25: the source of the file name.  original_filename is the first source
\* the response has, in this order: the filename*= parameter,
\* percent-decoded; the double-quoted filename; the single-quoted filename;
\* the unquoted filename; and, the response having none of them, "audio"
\* with the extension of the Content-Type.
C25_SourcePriority ==
    \A c \in Callers :
        fpc[c] = "dt_sanitize" =>
            LET h == loc[c].v
                byType == [t \in {"audio/mpeg", "audio/mp3"} |-> << ".", "m", "p", "3" >>]
                          @@ [t \in {"audio/mp4", "audio/m4a"} |-> << ".", "m", "4", "a" >>]
                          @@ ("audio/flac" :> << ".", "f", "l", "a", "c" >>)
                          @@ ("audio/wav" :> << ".", "w", "a", "v" >>)
                          @@ ("audio/ogg" :> << ".", "o", "g", "g" >>)
                extension == IF h.ctype \in DOMAIN byType THEN byType[h.ctype]
                             ELSE << ".", "m", "p", "3" >>
            IN  fname[c] =
                    IF h.param.value # << >> THEN Unquote(StripBlanks(h.param.value))
                    ELSE IF h.dq # << >> THEN Unquote(h.dq)
                    ELSE IF h.sq # << >> THEN Unquote(h.sq)
                    ELSE IF StripBlanks(h.unq) # << >> THEN Unquote(StripBlanks(h.unq))
                    ELSE << "a", "u", "d", "i", "o" >> \o extension

\* C26: canonical links.  A row that is not "Not Available" and whose link is
\* one well-formed link of a host (pillows.su/f/<id>,
\* files.yetracker.org/f/<id>, pixeldrain.com/u/<id>) has one record in the
\* list load_tracks returns, of that host and with that id as it is written
\* in the link, capitals kept.
C26_CanonicalLinks ==
    \A t \in RequestThreads :
        Loaded(t) =>
            \A i \in 1..Len(jsonFile.tracks) :
                LET row == jsonFile.tracks[i]
                IN  (/\ row.Quality # NotAvailable
                     /\ Len(row.Link) = 1
                     /\ row.Link[1].fid # "")
                    => /\ Cardinality(RecordsOf(t, row)) = 1
                       /\ \A k \in RecordsOf(t, row) :
                             /\ ret[t].v[k].host = row.Link[1].dom
                             /\ ret[t].v[k].hash = row.Link[1].fid

\* A list is returned for a sheet of a pillows row and a yetracker row whose
\* file id has a capital.
C26_Witness ==
    \E t \in RequestThreads :
        /\ Loaded(t)
        /\ Len(jsonFile.tracks) = 2
        /\ jsonFile.tracks[1].Link = << Occ("pillows", "abc") >>
        /\ jsonFile.tracks[2].Link = << Occ("yetracker", "Yt1") >>
        /\ Len(ret[t].v) = 2
        /\ ret[t].v[2].hash = "Yt1"

C28_SingleUseKeys ==
    Cardinality({u \in users : u.key = InviteKey}) <= 1

\* C29: the login gate.  With authentication required, a request for a
\* protected route is executed for a session only if the last login, registration
\* or logout of the session is a successful login or registration and, in
\* accounts mode, the user it logged in still has a row in users; every other
\* request is redirected to login and changes neither the catalog nor the disk.
C29_LoginGate ==
    [][\A s \in Sessions :
          LET allowed ==
                  /\ authEvent[s].kind = "in"
                  /\ mode = "accounts" =>
                        \E u \in LiveUsers : Some(u.id) = authEvent[s].user
          IN  (mode # "open" /\ apc[s] = "idle" /\ apc'[s] = "gated") =>
                  /\ gate'[s] = "executed" => allowed
                  /\ ~allowed =>
                        /\ gate'[s] = "redirected"
                        /\ UNCHANGED << catalogVars, diskVars >>]_vars

\* A session whose user was removed after its login has been redirected,
\* while the request of a logged-in session was executed.
C29_Witness ==
    /\ mode = "accounts"
    /\ \E s \in Sessions :
          /\ gate[s] = "redirected"
          /\ authEvent[s].kind = "in"
    /\ \E s \in Sessions :
          /\ gate[s] = "executed"
          /\ authEvent[s].kind = "in"

\* C30: download_all and the player agree on the cache.  For every record of
\* the index and whatever the disk holds, download_all.get_audio_path returns
\* a file exactly when the player's get_audio_path does.
C30_SameCacheView ==
    \A id \in DOMAIN IndexNow :
        (download_all_get_audio_path(IndexNow[id]) # None)
            <=> (get_audio_path(id) # None)

\* C31: host priority.  The hosts are tried in the order pillows, yetracker,
\* pixeldrain, wherever their domains stand in the link: the first of them
\* whose domain occurs in the link of a row decides.  With an identifier of
\* that host the row has its one record under that host; without one the row
\* has no record, whatever a later host would have captured.
C31_HostPriority ==
    LET order == << "pillows", "yetracker", "pixeldrain" >>
        tried(link) == {k \in 1..Len(order) : DomainIn(link, order[k])}
        first(link) == order[CHOOSE k \in tried(link) : \A j \in tried(link) : k <= j]
    IN  \A t \in RequestThreads :
            Loaded(t) =>
                \A i \in 1..Len(jsonFile.tracks) :
                    LET row == jsonFile.tracks[i]
                        mine == {k \in 1..Len(ret[t].v) :
                                    ret[t].v[k].id = generate_track_id(row)}
                    IN  (row.Quality # NotAvailable /\ tried(row.Link) # {}) =>
                            IF ExtractId(row.Link, first(row.Link)) = ""
                            THEN mine = {}
                            ELSE /\ mine # {}
                                 /\ \A k \in mine :
                                       /\ ret[t].v[k].host = first(row.Link)
                                       /\ ret[t].v[k].hash =
                                              ExtractId(row.Link, first(row.Link))

\* A list is returned for a sheet whose first row names the third host
\* before the first and is listed under the first, and whose second row has
\* the first host's domain without an identifier before a well-formed link
\* of the third host and is dropped.
C31_Witness ==
    \E t \in RequestThreads :
        /\ Loaded(t)
        /\ Len(jsonFile.tracks) = 2
        /\ jsonFile.tracks[1].Link = << Occ("pixeldrain", "Px1"), Occ("pillows", "abc") >>
        /\ jsonFile.tracks[2].Link = << Occ("pillows", ""), Occ("pixeldrain", "Px1") >>
        /\ jsonFile.tracks[2].Quality # NotAvailable
        /\ Len(ret[t].v) = 1
        /\ ret[t].v[1].host = "pillows"
        /\ ret[t].v[1].hash = "abc"

\* C32: no overwrite of a cached file.  However the calls of download_track
\* interleave, none opens for writing a file that exists in the id directory;
\* a call that finds the file of the resolved name returns its path and
\* leaves the file as it is.
C32_NoOverwrite ==
    [][\A c \in Callers :
          /\ (fpc[c] = "dt_open" /\ fpc'[c] = "dt_write") =>
                disk[DownloadDir(ftrack[c].v)][fname[c]] = "absent"
          /\ (fpc[c] = "dt_mkdir"
                /\ disk[DownloadDir(ftrack[c].v)][fname[c]] # "absent"
                /\ fpc'[c] # "dt_mkdir") =>
                /\ fret'[c] = InDir(DownloadDir(ftrack[c].v), fname[c])
                /\ disk' = disk]_vars

\* C33: every refresh ends.  A refresh_sheet() the background loop has
\* entered returns, with True or with False, whatever the upstream does.
C33_RefreshEnds ==
    (op[Bg] = "refresh" /\ pc[Bg] # "done")
        ~> (op[Bg] = "refresh" /\ pc[Bg] = "done" /\ ret[Bg].kind = "bool")

\* C34: the id map matches the list.  When get_track_index publishes the map
\* it has built from the list load_tracks returned to it, the keys of the map
\* are the ids of the records of that list, every key maps to a record of the
\* list that carries it, the last such record in the order of the list, and
\* an id no record of the list carries is not a key.
C34_IndexMatchesList ==
    [][\A t \in Threads :
          (pc[t] = "gi_publish" /\ pc'[t] = "gi_return") =>
              LET tracks == loc[t].v
                  index == track_index'.v
              IN  /\ track_index' # None
                  /\ DOMAIN index = {tracks[k].id : k \in 1..Len(tracks)}
                  /\ \A i \in DOMAIN index :
                        /\ index[i].id = i
                        /\ \E k \in 1..Len(tracks) :
                              /\ index[i] = tracks[k]
                              /\ \A j \in 1..Len(tracks) :
                                    tracks[j].id = i => j <= k
                  /\ UnknownId \notin DOMAIN index]_vars

\* A map of two records has been published and returned.
C34_Witness ==
    \E t \in Threads :
        /\ op[t] = "index"
        /\ pc[t] = "done"
        /\ ret[t].kind = "index"
        /\ track_index # None
        /\ ret[t].v = track_index.v
        /\ Cardinality(DOMAIN track_index.v) = 2

\* C35: the synthetic leading section.  With tracks whose era is "Unknown
\* Era" the first section split_sections returns has the era "Unknown Era"
\* and the number of those tracks as its track_count; no era header row is
\* returned as a track; the track_count of every section is the number of
\* returned tracks of the section's era.
C35_SyntheticSection ==
    \A t \in Threads :
        pc[t] = "ss_done" =>
            LET raw_rows == loc[t].v
                sections == ret[t].sections
                tracks == ret[t].tracks
            IN  /\ era_track_counts(tracks, UnknownEra) > 0 =>
                      /\ sections # << >>
                      /\ sections[1].era = UnknownEra
                      /\ sections[1].track_count = era_track_counts(tracks, UnknownEra)
                /\ \A k \in 1..Len(tracks) : ~IsHeader(raw_rows[tracks[k]._row - 1])
                /\ \A k \in 1..Len(sections) :
                      sections[k].track_count = era_track_counts(tracks, sections[k].era)

\* C36: the lock discipline.  The thread that holds _cache_lock stands in the
\* block at whose entry it acquired the lock: not at the entry of another
\* block, not at a read or write of a file, not at a request to the upstream.
\* The body of its block can run, and with it the lock is released: a thread
\* that waits for the lock waits for a thread that can go on.
C36_LockDiscipline ==
    lock # None =>
        /\ lock.v.at \in LockEntry
        /\ pc[lock.v.by] = lock.v.at
        /\ ENABLED Section(lock.v.by)

\* The refreshing thread holds the lock in its block while a request thread
\* waits at the entry of a block of load_tracks.
C36_Witness ==
    /\ lock = HeldBy(Bg)
    /\ pc[Bg] = "r_invalidate"
    /\ \E t \in RequestThreads : pc[t] = "lt_publish"

\* C37: a failed download leaves nothing cached.  When download_track has
\* sent its request and ended with an error, at the request or while the
\* body was read into the opened file, get_audio_path still finds no file
\* for the record.
C37_FailedFetchCachesNothing ==
    \A c \in Callers :
        (fpc[c] = "done" /\ fnet[c] /\ fret[c] = Failed /\ ftrack[c] # None)
            => ResolveTrack(ftrack[c].v) = None

\* C38: path containment.  Whatever file name the host sends and whatever
\* follows the file id in the link, the file id of the record and the name
\* download_track gives the file are each one name of a directory entry:
\* not empty, without a separator, neither "." nor "..".  The file
\* <base>/<file id>/<name> is a direct child of <base>/<file id>/, itself a
\* direct child of <base>/.
C38_PathContainment ==
    LET OneEntry(s) ==
            /\ s # << >>
            /\ \A i \in 1..Len(s) : s[i] \notin {"/", "\\"}
            /\ s \notin {<< "." >>, << ".", "." >>}
    IN  \A c \in Callers :
            fpc[c] = "dt_named" =>
                /\ OneEntry(file_id(ftrack[c].v))
                /\ OneEntry(fret[c].v)

\* A name is given to the file of a response whose header names a file of
\* the parent directory, for a record whose link goes on after the file id.
C38_Witness ==
    \E c \in Callers :
        /\ fpc[c] = "dt_named"
        /\ fname[c] = << ".", ".", "/", "x" >>
        /\ fret[c].v = << "_", "x" >>
        /\ ftrack[c].v.hash = << "a", "b" >>

\* C39: a rejected registration changes nothing.  When register answers a
\* request with an error page (the session is not logged in by the answer),
\* the answer creates no row of users and marks no key, and no row of users
\* that the request created is left in users.
C39_RejectedChangesNothing ==
    [][\A s \in Sessions :
          (/\ apc[s] \in {"reg_validate", "reg_create", "reg_use"}
           /\ apc'[s] = "idle"
           /\ authEvent'[s] = authEvent[s]) =>
              /\ users' = users
              /\ keyUsedBy' = keyUsedBy
              /\ apc[s] = "reg_use" =>
                    ~\E u \in users' :
                        /\ u.live
                        /\ u.name = areq[s].name
                        /\ u.key = areq[s].key]_vars

====
